---- MODULE Spec2Model ----
(***************************************************************************)
(* Model of the quote fetcher's backend session (QuoteScraper in           *)
(* backend/src/config.js, started by backend/src/server.js): the metadata  *)
(* walk, the page cache and page fetcher, and the offset/limit range       *)
(* resolver, with the external site reduced to a list of per-page item     *)
(* counts.  One step of the model is one run of JavaScript between two     *)
(* awaits.                                                                 *)
(***************************************************************************)
EXTENDS Integers, Sequences, FiniteSets, TLC

(* ---------------------------------------------------------------------- *)
(* Program constants                                                      *)
(* ---------------------------------------------------------------------- *)
maxPages == 10
DefaultQuotesPerPage == 10
\* variant: the walk's hard limit is one page later
WalkLimit_raised == 20 + 1
WalkLimit == 20
FallbackEstimatedTotal == 100
DefaultTotalPages == 10
\* variant: the subset strategy ends one count earlier
SubsetThreshold_low == 50 - 1
SubsetThreshold == 50

\* the page: the initial batch, the slices of the staggered schedule, the limit
\* of the staggered schedule, the scroller's batch, the automatic loads
\* ScrapingConfigSchema: the default of maxConcurrentTabs
DefaultMaxConcurrentTabs == 10

\* the handlers: the default and the cap of limit, the maximum of count
DefaultLimit == 20
LimitCap == 100
MaxCount == 300

BulkLimit == 100
InitialBatchLimit == 100
StaggerBatch == 100
StaggerLimit == 500
batchSize == 100
InitialLoads == 3

(* ---------------------------------------------------------------------- *)
(* Bounds of the model                                                    *)
(* ---------------------------------------------------------------------- *)
MaxSourcePages == 3
SmallPage == 2
FullPage == 5
MaxOffset == 4
MaxLimit == 2
BoundaryLimit == 10
MaxCalls == 2
MaxFaults == 1
MaxPresses == 2
MaxSweep == 6

Clients == {1, 2}
Startup == 0
Callers == {Startup} \cup Clients
RandomClient == 1
RangeClient == 2
PageNumbers == 1..maxPages

ScenarioCounts == <<10, 10, 7>>
ScenarioRequest == [offset |-> 15, limit |-> 10]

(* ---------------------------------------------------------------------- *)
(* Arithmetic of the JavaScript code                                      *)
(* ---------------------------------------------------------------------- *)
Min(a, b) == IF a <= b THEN a ELSE b
Max(a, b) == IF a >= b THEN a ELSE b
Floor(a, b) == a \div b
Ceil(a, b) == (a + b - 1) \div b
Round(a, b) == (2 * a + b) \div (2 * b)

RECURSIVE SumSeq(_)
SumSeq(s) == IF s = <<>> THEN 0 ELSE Head(s) + SumSeq(Tail(s))

RECURSIVE Flat(_)
Flat(ss) == IF ss = <<>> THEN <<>> ELSE Head(ss) \o Flat(Tail(ss))

Slice(s, from, to) == SubSeq(s, from + 1, Min(to, Len(s)))

(* ---------------------------------------------------------------------- *)
(* State                                                                  *)
(* ---------------------------------------------------------------------- *)
VARIABLES
  counts,        \* the external site: number of quotes on page 1, 2, ...
  serverPc,      \* "starting" until initializeScraper returned, then "listening"
  browser,       \* this.browser is set
  isInitialized, \* this.isInitialized
  pageMetadata,  \* this.pageMetadata (NoMetadata = null)
  pageCache,     \* this.pageCache, a function on the cached page numbers
  init,          \* per caller: the locals of a running initialize()
  req,           \* per client: the locals of a running fetchQuotesWithPagination
  calls,         \* number of range requests accepted so far
  faults,        \* failures of the browser or the site injected so far
  fetchCount,    \* per page: external fetches started (history)
  returned,      \* per page: the lists fetchQuotesFromPage returned (history)
  query,         \* the parameters of the HTTP request a client of the API sends
  listing,       \* the site's listing shows a Goodreads link per quote, or none
  fields,        \* the names of the fields assigned on the QuoteScraper object
  stats,         \* the last answer of GET /api/stats
  config,        \* this.config
  scrape,        \* the locals of a running scrapeQuotesInParallel
  selections,    \* the sizes of the large selections the user fetches, in order
  large,         \* per call of fetchLargeBulkQuotes: its locals and pending timers
  requests,      \* the requests the page has issued, in the order of issue
  virtualScroller, \* window.virtualScroller: 0 (undefined) or an index of scrollers
  scrollers,     \* the scroller objects setupVirtualScrolling has created
  loops,         \* per setupVirtualScrolling: its loadInitialBatches loop
  bulk,          \* per call of fetchBulkQuotes: its locals
  singles,       \* per call of fetchQuote: its locals
  selectedCells, \* state.selectedCells
  focusedCell,   \* state.focusedCell ("null": none)
  presses,       \* number of times Space was pressed so far
  gridQuotes,    \* state.quotes, a function on the cells that hold a quote object
  loadingCells,  \* state.loadingCells
  tempQuoteData,      \* window.tempQuoteData: 0 (undefined) or the request it is of
  tempBulkQuotesData, \* window.tempBulkQuotesData: 0 (undefined) or its request
  sweep          \* a client that asks for consecutive ranges: its limit and answers

\* the state of the page (frontend) and of the session (backend)
bulkVars == <<bulk, singles>>

selectionVars == <<selectedCells, focusedCell, presses>>

cellVars == <<gridQuotes, loadingCells>>

slotVars == <<tempQuoteData, tempBulkQuotesData>>

gridVars == <<selectionVars, cellVars, slotVars, sweep>>

apiVars == <<query, listing, fields, stats, config, scrape>>

clientVars == <<apiVars, selections, large, requests, virtualScroller, scrollers, loops, bulkVars,
                gridVars>>

scraperVars == <<counts, serverPc, browser, isInitialized, pageMetadata, pageCache,
                 init, req, calls, fetchCount, returned>>

vars == <<counts, serverPc, browser, isInitialized, pageMetadata, pageCache,
          init, req, calls, faults, fetchCount, returned, clientVars>>

NoMetadata == [totalPages |-> 0, quotesPerPage |-> 0, avgQuotesPerPage |-> 0,
               estimatedTotalQuotes |-> 0, quotesPerPageCounts |-> <<>>]

(* ---------------------------------------------------------------------- *)
(* The external site                                                      *)
(* ---------------------------------------------------------------------- *)
PageSizes == {0, SmallPage, FullPage}

RangeSources ==
  UNION {[1..n -> PageSizes] : n \in 1..MaxSourcePages} \cup {ScenarioCounts}

\* the sites of the two-client runs: two pages of at most one quote each
ConcSources == [1..2 -> 0..1]

QuotesOn(pageNum) == IF pageNum <= Len(counts) THEN counts[pageNum] ELSE 0

HasNextButton(pageNum) == pageNum < Len(counts)

\* the list page.evaluate extracts from /page/pageNum/: one item per quote,
\* identified by pageNumber and quoteIndex
PageItems(pageNum) == [i \in 1..QuotesOn(pageNum) |-> <<pageNum, i - 1>>]

(* ---------------------------------------------------------------------- *)
(* initialize() and fetchPageMetadata()                                   *)
(* ---------------------------------------------------------------------- *)
NoWalk == [pc |-> "none", currentPage |-> 0, totalPages |-> 0,
           minQuotesPerPage |-> 0, quotesPerPageCounts |-> <<>>]

IdleReq == [pc |-> "idle", offset |-> 0, limit |-> 0, quotesPerPage |-> 0,
            startPage |-> 0, endPage |-> 0, slots |-> <<>>, completed |-> <<>>,
            allQuotes |-> <<>>, additionalPage |-> 0, result |-> <<>>,
            failed |-> FALSE,
            count |-> 0, pagesNeeded |-> 0, totalPages |-> 0,
            pageNumbers |-> <<>>, shuffled |-> <<>>]

\* variant: the estimate is computed from the uncapped page count
WalkedMetadata_uncappedEstimate(w) ==
  [totalPages |-> Min(w.totalPages, maxPages),
   quotesPerPage |-> w.minQuotesPerPage,
   avgQuotesPerPage |-> Round(SumSeq(w.quotesPerPageCounts), Len(w.quotesPerPageCounts)),
   estimatedTotalQuotes |-> w.minQuotesPerPage * w.totalPages,
   quotesPerPageCounts |-> w.quotesPerPageCounts]

\* the record assigned to this.pageMetadata at the end of a walk
WalkedMetadata(w) ==
  [totalPages |-> Min(w.totalPages, maxPages),
   quotesPerPage |-> w.minQuotesPerPage,
   avgQuotesPerPage |-> Round(SumSeq(w.quotesPerPageCounts), Len(w.quotesPerPageCounts)),
   estimatedTotalQuotes |-> w.minQuotesPerPage * Min(w.totalPages, maxPages),
   quotesPerPageCounts |-> w.quotesPerPageCounts]

\* the record assigned in the catch block of fetchPageMetadata
FallbackMetadata ==
  [totalPages |-> maxPages, quotesPerPage |-> DefaultQuotesPerPage,
   avgQuotesPerPage |-> DefaultQuotesPerPage,
   estimatedTotalQuotes |-> FallbackEstimatedTotal,
   quotesPerPageCounts |-> <<DefaultQuotesPerPage>>]

\* a failure of the browser or of the site (launch, tab, navigation, timeout)
\* is injected; at most MaxFaults of them in one run
Fault == faults < MaxFaults /\ faults' = faults + 1
FaultIf(b) == IF b THEN Fault ELSE faults' = faults

\* initialize() rejects: the server's startup catches it and starts listening,
\* a request that called initialize() fails
InitializeThrows(c) ==
  /\ init' = [init EXCEPT ![c] = NoWalk]
  /\ IF c = Startup
       THEN serverPc' = "listening" /\ req' = req
       ELSE serverPc' = serverPc /\ req' = [req EXCEPT ![c].pc = "error"]

LaunchBrowser(c) ==
  /\ init[c].pc = "launch"
  /\ browser' = TRUE
  /\ init' = [init EXCEPT ![c].pc = "newPage"]
  /\ UNCHANGED <<clientVars, counts, faults, serverPc, isInitialized, pageMetadata, pageCache,
                 req, calls, fetchCount, returned>>

LaunchFails(c) ==
  /\ init[c].pc = "launch"
  /\ Fault
  /\ InitializeThrows(c)
  /\ UNCHANGED <<clientVars, counts, browser, isInitialized, pageMetadata, pageCache,
                 calls, fetchCount, returned>>

OpenMetadataTab(c) ==
  /\ init[c].pc = "newPage"
  /\ init' = [init EXCEPT ![c].pc = "first"]
  /\ UNCHANGED <<clientVars, counts, faults, serverPc, browser, isInitialized, pageMetadata,
                 pageCache, req, calls, fetchCount, returned>>

OpenMetadataTabFails(c) ==
  /\ init[c].pc = "newPage"
  /\ Fault
  /\ InitializeThrows(c)
  /\ UNCHANGED <<clientVars, counts, browser, isInitialized, pageMetadata, pageCache,
                 calls, fetchCount, returned>>

WalkFirstPage(c) ==
  /\ init[c].pc = "first"
  /\ init' = [init EXCEPT ![c] =
       [pc |-> "loop", currentPage |-> 1, totalPages |-> 1,
        minQuotesPerPage |-> QuotesOn(1),
        quotesPerPageCounts |-> <<QuotesOn(1)>>]]
  /\ UNCHANGED <<clientVars, counts, faults, serverPc, browser, isInitialized, pageMetadata,
                 pageCache, req, calls, fetchCount, returned>>

\* one iteration of the while loop that finds a "Next" button
WalkNextPage(c) ==
  LET w == init[c]
      n == w.currentPage + 1
      q == QuotesOn(n)
      visited == [w EXCEPT !.currentPage = n,
                           !.totalPages = IF q = 0 THEN n - 1 ELSE n,
                           !.minQuotesPerPage = Min(w.minQuotesPerPage, q),
                           !.quotesPerPageCounts = Append(w.quotesPerPageCounts, q)]
  IN /\ w.pc = "loop"
     /\ w.currentPage < WalkLimit
     /\ HasNextButton(w.currentPage)
     /\ IF q = 0
          THEN /\ pageMetadata' = WalkedMetadata(visited)
               /\ init' = [init EXCEPT ![c] = [visited EXCEPT !.pc = "close"]]
          ELSE /\ pageMetadata' = pageMetadata
               /\ init' = [init EXCEPT ![c] = visited]
     /\ UNCHANGED <<clientVars, counts, faults, serverPc, browser, isInitialized, pageCache,
                    req, calls, fetchCount, returned>>

\* the loop ends: no "Next" button, or the walk limit is reached
WalkEnds(c) ==
  /\ init[c].pc = "loop"
  /\ ~HasNextButton(init[c].currentPage) \/ init[c].currentPage >= WalkLimit
  /\ pageMetadata' = WalkedMetadata(init[c])
  /\ init' = [init EXCEPT ![c].pc = "close"]
  /\ UNCHANGED <<clientVars, counts, faults, serverPc, browser, isInitialized, pageCache,
                 req, calls, fetchCount, returned>>

\* a navigation or evaluation inside the try block throws
WalkFails(c) ==
  /\ init[c].pc \in {"first", "loop"}
  /\ Fault
  /\ pageMetadata' = FallbackMetadata
  /\ init' = [init EXCEPT ![c].pc = "close"]
  /\ UNCHANGED <<clientVars, counts, serverPc, browser, isInitialized, pageCache,
                 req, calls, fetchCount, returned>>

InitializeReturns(c) ==
  /\ init[c].pc = "close"
  /\ isInitialized' = TRUE
  /\ init' = [init EXCEPT ![c] = NoWalk]
  /\ IF c = Startup
       THEN serverPc' = "listening" /\ req' = req
       ELSE serverPc' = serverPc /\ req' = [req EXCEPT ![c].pc = "initialized"]
  /\ UNCHANGED <<clientVars, counts, faults, browser, pageMetadata, pageCache, calls,
                 fetchCount, returned>>

(* ---------------------------------------------------------------------- *)
(* fetchQuotesFromPage(pageNum)                                           *)
(* ---------------------------------------------------------------------- *)
Cached(pageNum) == pageNum \in DOMAIN pageCache

\* variant: the cache is never consulted
fetchQuotesFromPage_noCache(pageNum) ==
  [page |-> pageNum, state |-> "open", result |-> <<>>]

\* variant: the cache is consulted under the wrong key
fetchQuotesFromPage_wrongKey(pageNum) ==
  IF Cached(pageNum + 1)
    THEN [page |-> pageNum, state |-> "done", result |-> pageCache[pageNum + 1]]
    ELSE [page |-> pageNum, state |-> "open", result |-> <<>>]

\* the call up to its first await: a cache hit returns the cached list, a
\* miss goes on to open a tab (the promise stays open)
fetchQuotesFromPage(pageNum) ==
  IF Cached(pageNum)
    THEN [page |-> pageNum, state |-> "done", result |-> pageCache[pageNum]]
    ELSE [page |-> pageNum, state |-> "open", result |-> <<>>]

\* variant: a second write appends to the entry instead of replacing it
CacheSet_append(pageNum, quotes) ==
  [p \in DOMAIN pageCache \cup {pageNum} |->
     IF p # pageNum THEN pageCache[p]
     ELSE IF Cached(p) THEN pageCache[p] \o quotes ELSE quotes]

\* this.pageCache.set(pageNum, quotes)
CacheSet(pageNum, quotes) ==
  [p \in DOMAIN pageCache \cup {pageNum} |->
     IF p = pageNum THEN quotes ELSE pageCache[p]]

\* the external fetch of a page can succeed only if the page shows a quote
\* (waitForSelector('.quote') times out otherwise); it can always fail
Outcomes(pageNum) == IF QuotesOn(pageNum) > 0 THEN {TRUE, FALSE} ELSE {FALSE}

\* what the external fetch resolves to: the extracted list, or [] from catch
Fetched(pageNum, ok) == IF ok THEN PageItems(pageNum) ELSE <<>>

\* variant: the catch block caches the empty list it returns
CacheAfter_failureCached(pageNum, ok) == CacheSet(pageNum, Fetched(pageNum, ok))

\* the cache after the external fetch: set on success, untouched by the catch
CacheAfter(pageNum, ok) ==
  IF ok THEN CacheSet(pageNum, PageItems(pageNum)) ELSE pageCache

Record(pageNum, list) ==
  [returned EXCEPT ![pageNum] = returned[pageNum] \cup {list}]

(* ---------------------------------------------------------------------- *)
(* fetchQuotesWithPagination(offset, limit)                               *)
(* ---------------------------------------------------------------------- *)
\* this.pageMetadata?.quotesPerPage || 10
QuotesPerPage ==
  IF pageMetadata.quotesPerPage = 0 THEN DefaultQuotesPerPage
  ELSE pageMetadata.quotesPerPage

StartPage(o, qpp) == Floor(o, qpp) + 1
EndPage(o, l, qpp) == Ceil(o + l, qpp)
StartIndex(q) == q.offset % q.quotesPerPage
Short(q) == Len(q.allQuotes) < StartIndex(q) + q.limit

\* variant: the planned span is not capped at totalPages
PlannedPages_uncapped(o, l, qpp) ==
  LET s == StartPage(o, qpp)
      e == EndPage(o, l, qpp)
  IN [i \in 1..Max(e - s + 1, 0) |-> s + i - 1]

\* the pages the for loop passes to fetchQuotesFromPage, in loop order
PlannedPages(o, l, qpp) ==
  LET s == StartPage(o, qpp)
      e == Min(EndPage(o, l, qpp), pageMetadata.totalPages)
  IN [i \in 1..Max(e - s + 1, 0) |-> s + i - 1]

\* from the computation of quotesPerPage to the await of Promise.all
PlanPages(r, o, l) ==
  LET qpp == QuotesPerPage
      pages == PlannedPages(o, l, qpp)
      planned == {pages[i] : i \in DOMAIN pages}
      slots == [i \in DOMAIN pages |-> fetchQuotesFromPage(pages[i])]
  IN /\ req' = [req EXCEPT ![r] =
          [IdleReq EXCEPT !.pc = "fetching", !.offset = o, !.limit = l,
                          !.quotesPerPage = qpp,
                          !.startPage = StartPage(o, qpp),
                          !.endPage = EndPage(o, l, qpp),
                          !.slots = slots]]
     /\ fetchCount' = [p \in PageNumbers |->
          IF p \in planned /\ ~Cached(p) THEN fetchCount[p] + 1 ELSE fetchCount[p]]
     /\ returned' = [p \in PageNumbers |->
          IF p \in planned /\ Cached(p) THEN returned[p] \cup {pageCache[p]}
          ELSE returned[p]]

\* a request handler calls fetchQuotesWithPagination(o, l)
FetchQuotesWithPagination(r, o, l) ==
  /\ serverPc = "listening"
  /\ req[r].pc = "idle"
  /\ calls' = calls + 1
  /\ IF isInitialized
       THEN /\ PlanPages(r, o, l)
            /\ init' = init
       ELSE /\ req' = [req EXCEPT ![r] =
                 [IdleReq EXCEPT !.pc = "initializing", !.offset = o, !.limit = l]]
            /\ init' = [init EXCEPT ![r].pc = "launch"]
            /\ UNCHANGED <<fetchCount, returned>>
  /\ UNCHANGED <<clientVars, counts, faults, serverPc, browser, isInitialized, pageMetadata, pageCache>>

\* the call's own await this.initialize() has resolved
ResumeAfterInitialize(r) ==
  /\ req[r].pc = "initialized"
  /\ req[r].count = 0
  /\ PlanPages(r, req[r].offset, req[r].limit)
  /\ UNCHANGED <<clientVars, counts, faults, serverPc, browser, isInitialized, pageMetadata,
                 pageCache, init, calls>>

\* the external fetch of planned page number i of request r settles
FetchCompletes(r, i, ok) ==
  LET q == req[r]
      pageNum == q.slots[i].page
      list == Fetched(pageNum, ok)
  IN /\ q.pc \in {"fetching", "subsetFetching", "error"}
     /\ i \in DOMAIN q.slots
     /\ q.slots[i].state = "open"
     /\ ok \in Outcomes(pageNum)
     /\ FaultIf(~ok /\ QuotesOn(pageNum) > 0)
     /\ pageCache' = CacheAfter(pageNum, ok)
     /\ req' = [req EXCEPT ![r].slots[i].state = "done",
                           ![r].slots[i].result = list,
                           ![r].completed = Append(q.completed, i),
                           ![r].failed = q.failed \/ (~ok /\ QuotesOn(pageNum) > 0)]
     /\ returned' = Record(pageNum, list)
     /\ UNCHANGED <<clientVars, counts, serverPc, browser, isInitialized, pageMetadata,
                    init, calls, fetchCount>>

\* browser.newPage() of a planned page rejects: Promise.all rejects
FetchTabFails(r, i) ==
  LET q == req[r]
  IN /\ q.pc \in {"fetching", "subsetFetching", "error"}
     /\ i \in DOMAIN q.slots
     /\ q.slots[i].state = "open"
     /\ Fault
     /\ req' = [req EXCEPT ![r].slots[i].state = "thrown", ![r].pc = "error"]
     /\ UNCHANGED <<clientVars, counts, serverPc, browser, isInitialized, pageMetadata,
                    pageCache, init, calls, fetchCount, returned>>

\* variant: the lists are collected in the order the fetches completed
PageResults_completionOrder(q) ==
  [k \in DOMAIN q.completed |-> q.slots[q.completed[k]].result]

\* the array Promise.all resolves to: one list per planned page, in the
\* order the promises were pushed
PageResults(q) == [i \in DOMAIN q.slots |-> q.slots[i].result]

\* variant: the extension starts again at endPage
AdditionalStart_endPage(q) == q.endPage

\* let additionalPage = endPage + 1
AdditionalStart(q) == q.endPage + 1

\* Promise.all resolved: pageResults.flat()
JoinPages(r) ==
  LET q == req[r]
  IN /\ q.pc = "fetching"
     /\ \A i \in DOMAIN q.slots : q.slots[i].state = "done"
     /\ req' = [req EXCEPT ![r].pc = "extend",
                           ![r].allQuotes = Flat(PageResults(q)),
                           ![r].additionalPage = AdditionalStart(q)]
     /\ UNCHANGED <<clientVars, counts, faults, serverPc, browser, isInitialized, pageMetadata,
                    pageCache, init, calls, fetchCount, returned>>

\* variant: the loop stops one page before totalPages
MoreNeeded_strict(q) == Short(q) /\ q.additionalPage < pageMetadata.totalPages

\* variant: the loop does not look at totalPages
MoreNeeded_anyPage(q) == Short(q)

\* the guard of the while loop that fetches additional pages
MoreNeeded(q) == Short(q) /\ q.additionalPage <= pageMetadata.totalPages

\* one iteration of the loop starts: fetchQuotesFromPage(additionalPage)
ExtendCall(r) ==
  LET q == req[r]
      f == fetchQuotesFromPage(q.additionalPage)
  IN /\ q.pc = "extend"
     /\ MoreNeeded(q)
     /\ IF f.state = "done"
          THEN /\ req' = [req EXCEPT ![r].allQuotes = q.allQuotes \o f.result,
                                     ![r].additionalPage = q.additionalPage + 1]
               /\ returned' = Record(q.additionalPage, f.result)
               /\ fetchCount' = fetchCount
          ELSE /\ req' = [req EXCEPT ![r].pc = "extendWait"]
               /\ fetchCount' = [fetchCount EXCEPT ![q.additionalPage] = @ + 1]
               /\ returned' = returned
     /\ UNCHANGED <<clientVars, counts, faults, serverPc, browser, isInitialized, pageMetadata,
                    pageCache, init, calls>>

\* the external fetch of the additional page settles
ExtendCompletes(r, ok) ==
  LET q == req[r]
      pageNum == q.additionalPage
      list == Fetched(pageNum, ok)
  IN /\ q.pc = "extendWait"
     /\ ok \in Outcomes(pageNum)
     /\ FaultIf(~ok /\ QuotesOn(pageNum) > 0)
     /\ pageCache' = CacheAfter(pageNum, ok)
     /\ req' = [req EXCEPT ![r].pc = "extend",
                           ![r].allQuotes = q.allQuotes \o list,
                           ![r].additionalPage = pageNum + 1,
                           ![r].failed = q.failed \/ (~ok /\ QuotesOn(pageNum) > 0)]
     /\ returned' = Record(pageNum, list)
     /\ UNCHANGED <<clientVars, counts, serverPc, browser, isInitialized, pageMetadata,
                    init, calls, fetchCount>>

\* browser.newPage() of the additional page rejects
ExtendTabFails(r) ==
  /\ req[r].pc = "extendWait"
  /\ Fault
  /\ req' = [req EXCEPT ![r].pc = "error"]
  /\ UNCHANGED <<clientVars, counts, serverPc, browser, isInitialized, pageMetadata,
                 pageCache, init, calls, fetchCount, returned>>

\* allQuotes.slice(startIndex, startIndex + limit) is returned
ReturnSlice(r) ==
  LET q == req[r]
  IN /\ q.pc = "extend"
     /\ ~MoreNeeded(q)
     /\ req' = [req EXCEPT ![r].pc = "done",
                           ![r].result = Slice(q.allQuotes, StartIndex(q),
                                               StartIndex(q) + q.limit)]
     /\ UNCHANGED <<clientVars, counts, faults, serverPc, browser, isInitialized, pageMetadata,
                    pageCache, init, calls, fetchCount, returned>>

\* the handler has answered (200 with the slice, or 500) and the client may
\* send its next request
Respond(r) ==
  /\ req[r].pc \in {"done", "error"}
  /\ \A i \in DOMAIN req[r].slots : req[r].slots[i].state # "open"
  /\ req' = [req EXCEPT ![r] = IdleReq]
  /\ UNCHANGED <<clientVars, counts, faults, serverPc, browser, isInitialized, pageMetadata,
                 pageCache, init, calls, fetchCount, returned>>

(* ---------------------------------------------------------------------- *)
(* fetchRandomQuotes(count) and fetchQuotesFromSubsetOfPages(count)       *)
(* ---------------------------------------------------------------------- *)
\* variant: the number of pages is not capped at half of the pages
PagesNeeded_uncapped(count) == Ceil(count, QuotesPerPage)

\* Math.min(Math.ceil(count / quotesPerPage), Math.ceil(totalPages / 2))
PagesNeeded(count) ==
  Min(Ceil(count, QuotesPerPage), Ceil(pageMetadata.totalPages, 2))

\* this.pageMetadata?.totalPages || 10
SubsetTotalPages ==
  IF pageMetadata.totalPages = 0 THEN DefaultTotalPages
  ELSE pageMetadata.totalPages

\* fetchQuotesFromSubsetOfPages up to the loop that draws the pages
StartSubset(r, count) ==
  req' = [req EXCEPT ![r] =
    [IdleReq EXCEPT !.pc = "drawing", !.count = count,
                    !.quotesPerPage = QuotesPerPage,
                    !.pagesNeeded = PagesNeeded(count),
                    !.totalPages = SubsetTotalPages]]

\* the branch of fetchRandomQuotes on count
Dispatch(r, count) ==
  IF count <= SubsetThreshold
    THEN StartSubset(r, count) /\ UNCHANGED <<fetchCount, returned>>
    ELSE PlanPages(r, 0, count)

\* a request handler calls fetchRandomQuotes(count)
FetchRandomQuotes(r, count) ==
  /\ serverPc = "listening"
  /\ req[r].pc = "idle"
  /\ calls' = calls + 1
  /\ IF isInitialized
       THEN /\ Dispatch(r, count)
            /\ init' = init
       ELSE /\ req' = [req EXCEPT ![r] =
                 [IdleReq EXCEPT !.pc = "initializing", !.count = count]]
            /\ init' = [init EXCEPT ![r].pc = "launch"]
            /\ UNCHANGED <<fetchCount, returned>>
  /\ UNCHANGED <<clientVars, counts, faults, serverPc, browser, isInitialized, pageMetadata, pageCache>>

\* the await this.initialize() of fetchRandomQuotes has resolved
ResumeRandomAfterInitialize(r) ==
  /\ req[r].pc = "initialized"
  /\ req[r].count > 0
  /\ Dispatch(r, req[r].count)
  /\ UNCHANGED <<clientVars, counts, faults, serverPc, browser, isInitialized, pageMetadata,
                 pageCache, init, calls>>

\* one iteration of the loop that selects random pages: Math.random() draws
\* randomPage, which is pushed unless it was drawn before
DrawPage(r, randomPage) ==
  LET q == req[r]
      drawn == {q.pageNumbers[i] : i \in DOMAIN q.pageNumbers}
  IN /\ q.pc = "drawing"
     /\ Len(q.pageNumbers) < q.pagesNeeded
     /\ randomPage \in 1..q.totalPages
     /\ req' = [req EXCEPT ![r].pageNumbers =
          IF randomPage \in drawn THEN q.pageNumbers
          ELSE Append(q.pageNumbers, randomPage)]
     /\ UNCHANGED <<clientVars, counts, faults, serverPc, browser, isInitialized, pageMetadata,
                    pageCache, init, calls, fetchCount, returned>>

\* the loop has ended: pageNumbers.map(fetchQuotesFromPage), up to the await
\* of Promise.all
SubsetFetch(r) ==
  LET q == req[r]
      selected == {q.pageNumbers[i] : i \in DOMAIN q.pageNumbers}
  IN /\ q.pc = "drawing"
     /\ ~(Len(q.pageNumbers) < q.pagesNeeded)
     /\ req' = [req EXCEPT ![r].pc = "subsetFetching",
                           ![r].slots = [i \in DOMAIN q.pageNumbers |->
                                           fetchQuotesFromPage(q.pageNumbers[i])]]
     /\ fetchCount' = [p \in PageNumbers |->
          IF p \in selected /\ ~Cached(p) THEN fetchCount[p] + 1 ELSE fetchCount[p]]
     /\ returned' = [p \in PageNumbers |->
          IF p \in selected /\ Cached(p) THEN returned[p] \cup {pageCache[p]}
          ELSE returned[p]]
     /\ UNCHANGED <<clientVars, counts, faults, serverPc, browser, isInitialized, pageMetadata,
                    pageCache, init, calls>>

\* variant: every position is filled by an independent random pick
shuffleArray_withRepetition(array) ==
  LET n == Len(array)
  IN {[i \in 1..n |-> array[f[i]]] : f \in [1..n -> 1..n]}

\* the arrays shuffleArray(array) can return: the Fisher-Yates loop swaps
\* position i with a random position j <= i, which can produce every
\* arrangement of the copied array
shuffleArray(array) ==
  LET n == Len(array)
      orders == {f \in [1..n -> 1..n] : \A i, j \in 1..n : f[i] = f[j] => i = j}
  IN {[i \in 1..n |-> array[f[i]]] : f \in orders}

\* Promise.all resolved: flatten, shuffle, slice(0, count)
ShuffleAndSlice(r) ==
  LET q == req[r]
      flat == Flat(PageResults(q))
  IN /\ q.pc = "subsetFetching"
     /\ \A i \in DOMAIN q.slots : q.slots[i].state = "done"
     /\ \E sh \in shuffleArray(flat) :
          req' = [req EXCEPT ![r].pc = "done",
                             ![r].allQuotes = flat,
                             ![r].shuffled = sh,
                             ![r].result = Slice(sh, 0, q.count)]
     /\ UNCHANGED <<clientVars, counts, faults, serverPc, browser, isInitialized, pageMetadata,
                    pageCache, init, calls, fetchCount, returned>>

(* ---------------------------------------------------------------------- *)
(* The page: loadBatchWithPagination, fetchLargeBulkQuotes and the        *)
(* virtual scroller (frontend/src/hooks/useKeyboard.js).  A cell of a     *)
(* selection is named by its position in the selection, from 0.           *)
(* ---------------------------------------------------------------------- *)
CellIds(total) == [i \in 1..total |-> i - 1]

\* the quote objects a cell can hold: a loading message, item index of the
\* answer to a request, a mock quote, a placeholder, an error quote
LoadingQuote == [kind |-> "loading", request |-> 0, index |-> 0]
Item(i, index) == [kind |-> "item", request |-> i, index |-> index]
MockQuote == [kind |-> "mock", request |-> 0, index |-> 0]
PlaceholderQuote == [kind |-> "placeholder", request |-> 0, index |-> 0]
ErrorQuote == [kind |-> "error", request |-> 0, index |-> 0]

Cells(cellIds) == {cellIds[k] : k \in DOMAIN cellIds}

\* cellIds.indexOf(cellId), 1-based; cell ids are numbers and the ids of a
\* run of neighbouring cells are found without a search
IndexOf(cellIds, cellId) ==
  LET guess == cellId - cellIds[1] + 1
  IN IF guess \in DOMAIN cellIds /\ cellIds[guess] = cellId
       THEN guess
       ELSE CHOOSE k \in DOMAIN cellIds : cellIds[k] = cellId

\* the reducer's SET_QUOTE for every cell of the function new
SetQuotes(new) == gridQuotes' = new @@ gridQuotes

\* updateLoadingMessage(cellId, ...) for every cell of cellIds
UpdateLoadingMessage(cellIds) == SetQuotes([cellId \in Cells(cellIds) |-> LoadingQuote])

\* SET_LOADING_CELL and the first loading message for every cell of cellIds
SetLoadingCells(cellIds) ==
  /\ loadingCells' = loadingCells \cup Cells(cellIds)
  /\ UpdateLoadingMessage(cellIds)

\* cellIds.forEach((cellId, index) => ...): the first count cells get the
\* items of the answer to request i, the others a placeholder
AssignQuotes(cellIds, i, count) ==
  SetQuotes([cellId \in Cells(cellIds) |->
               IF IndexOf(cellIds, cellId) <= count
                 THEN Item(i, IndexOf(cellIds, cellId)) ELSE PlaceholderQuote])

\* variant: the cells are never taken out of loadingCells
ClearLoadingCells_never(cellIds) == loadingCells' = loadingCells

\* CLEAR_LOADING_CELL for every cell of cellIds
ClearLoadingCells(cellIds) == loadingCells' = loadingCells \ Cells(cellIds)

\* data.data.length of an answer to a request for limit items: all of them,
\* or one fewer (at least least of them)
AnswerCounts(limit, least) == {n \in {limit - 1, limit} : n >= least}

\* the request loadBatchWithPagination(cellIds, offset) sends:
\* /api/quotes/paginated?offset=${offset}&limit=${cellIds.length}
PaginatedRequest(c, by, s, l, cellIds, offset) ==
  [call |-> c, by |-> by, scroller |-> s, loop |-> l, cellIds |-> cellIds,
   offset |-> offset, limit |-> Len(cellIds), status |-> "inflight", shown |-> "",
   count |-> 0]

LargeKinds == {"initial", "timer", "scroller"}

InitialBatchSize_whole(cellIds) == Len(cellIds)

InitialBatchSize(cellIds) == Min(InitialBatchLimit, Len(cellIds))

InitialCells(cellIds) == Slice(cellIds, 0, InitialBatchSize(cellIds))

RemainingCells(cellIds) == SubSeq(cellIds, InitialBatchSize(cellIds) + 1, Len(cellIds))

\* for (i = 0; i < remainingCells.length; i += 100) push(slice(i, i + 100))
RemainingBatches(remainingCells) ==
  [k \in 1..Ceil(Len(remainingCells), StaggerBatch) |->
     Slice(remainingCells, (k - 1) * StaggerBatch, (k - 1) * StaggerBatch + StaggerBatch)]

BatchOffset_fromRemaining(initialBatchSize, index) == index * StaggerBatch

BatchOffset(initialBatchSize, index) == initialBatchSize + index * StaggerBatch

\* fetchLargeBulkQuotes(cellIds) up to its await: the initial batch is
\* requested at offset 0
\* handleFetchQuote() finds total empty cells in the next selection of the user
Handled == Len(large) + Len(bulk) + Len(SelectSeq(singles, LAMBDA f : f.fallbackOf = 0))

CellsToFetch(total) ==
  /\ Handled < Len(selections)
  /\ total = selections[Handled + 1].total
  /\ Len(requests) = selections[Handled + 1].issued

\* fetchLargeBulkQuotes(cellIds) up to its await; no cell is marked loading
CallFetchLargeBulkQuotes(cellIds) ==
  /\ large' = Append(large, [cellIds |-> cellIds,
                             initialBatchSize |-> InitialBatchSize(cellIds),
                             remainingBatches |-> <<>>,
                             fired |-> 0,
                             pc |-> "initial"])
  /\ requests' = Append(requests,
                        PaginatedRequest(Len(large) + 1, "initial", 0, 0,
                                         InitialCells(cellIds), 0))

FetchLargeBulkQuotes(total) ==
  /\ CellsToFetch(total)
  /\ total > BulkLimit
  /\ CallFetchLargeBulkQuotes(CellIds(total))
  /\ UNCHANGED <<gridVars, apiVars, selections, virtualScroller, scrollers, loops, bulkVars, faults, scraperVars>>

\* the scroller object setupVirtualScrolling(cellIds, initialBatchSize) creates
NewScroller(c, cellIds, initialBatchSize) ==
  [call |-> c,
   allCells |-> cellIds,
   loadedCells |-> {cellIds[i] : i \in 1..Min(initialBatchSize, Len(cellIds))},
   batchSize |-> batchSize,
   isLoading |-> FALSE]

UnloadedCells(sc) == SelectSeq(sc.allCells, LAMBDA cellId : cellId \notin sc.loadedCells)

\* variant: the batch is taken from the start of allCells
NextBatch_fromStart(sc) == Slice(sc.allCells, 0, sc.batchSize)

NextBatch(sc) == Slice(UnloadedCells(sc), 0, sc.batchSize)

\* loadAroundViewport() of scroller s goes on to its request
Loads_emptyBatch(scs, s) == ~scs[s].isLoading

Loads(scs, s) == ~scs[s].isLoading /\ NextBatch(scs[s]) # <<>>

LoadRequest(scs, s, l) ==
  PaginatedRequest(scs[s].call, "scroller", s, l, NextBatch(scs[s]),
                   Len(scs[s].allCells) - Len(UnloadedCells(scs[s])))

\* loadAroundViewport() of scroller s, called by loop l (0: by a scroll signal),
\* up to its await; scs and reqs are the scrollers and the requests before it
LoadAroundViewport(scs, reqs, s, l) ==
  IF Loads(scs, s)
    THEN /\ scrollers' = [scs EXCEPT ![s].isLoading = TRUE]
         /\ requests' = Append(reqs, LoadRequest(scs, s, l))
    ELSE /\ scrollers' = scs
         /\ requests' = reqs

\* setupVirtualScrolling(cellIds, initialBatchSize): the global is replaced,
\* and loadInitialBatches() runs up to the await of its first iteration
SetupVirtualScrolling(c, reqs) ==
  LET scs == Append(scrollers, NewScroller(c, large[c].cellIds, large[c].initialBatchSize))
      s == Len(scs)
  IN /\ virtualScroller' = s
     /\ LoadAroundViewport(scs, reqs, s, Len(loops) + 1)
     /\ loops' = Append(loops, [i |-> 1,
                                pc |-> IF Loads(scs, s) THEN "awaiting" ELSE "delay"])

\* fetchLargeBulkQuotes after its await
AfterInitialBatch(c, reqs) ==
  LET remainingCells == RemainingCells(large[c].cellIds)
  IN IF remainingCells = <<>>
       THEN /\ large' = [large EXCEPT ![c].pc = "returned"]
            /\ requests' = reqs
            /\ UNCHANGED <<virtualScroller, scrollers, loops>>
     ELSE IF Len(remainingCells) <= StaggerLimit
       THEN /\ large' = [large EXCEPT ![c].pc = "returned",
                                      ![c].remainingBatches = RemainingBatches(remainingCells)]
            /\ requests' = reqs
            /\ UNCHANGED <<virtualScroller, scrollers, loops>>
     ELSE /\ large' = [large EXCEPT ![c].pc = "returned"]
          /\ SetupVirtualScrolling(c, reqs)

\* after the await of loadAroundViewport: the batch is marked loaded, and the
\* loop that called it goes on to its delay
AfterLoad(i) ==
  LET q == requests[i]
  IN /\ scrollers' = [scrollers EXCEPT
                        ![q.scroller].loadedCells = @ \cup {q.cellIds[k] : k \in DOMAIN q.cellIds},
                        ![q.scroller].isLoading = FALSE]
     /\ loops' = IF q.loop = 0 THEN loops ELSE [loops EXCEPT ![q.loop].pc = "delay"]

\* state.focusedCell when no cell has the focus (null); the cell ids of the
\* page ("row-col") are modelled as numbers from 0
NoCell == -1


\* handleFetchQuote: the selected cells that hold no quote and are not in
\* loadingCells
cellsToFetch ==
  SelectSeq(selectedCells,
            LAMBDA cellId : cellId \notin DOMAIN gridQuotes /\ cellId \notin loadingCells)

\* catch of loadBatchWithPagination: error placeholders, no fetchQuote
BatchFallback(cellIds, i) == <<>>

\* data.data.length of the answer to batch request i; a short answer is
\* followed through the initial batch and the timer batches, the batches of
\* a scroller (the same function, loadBatchWithPagination) are answered in
\* full or fail
BatchCounts(i, ok) ==
  IF ~ok THEN {0}
  ELSE IF requests[i].by = "scroller" THEN {requests[i].limit}
  ELSE AnswerCounts(requests[i].limit, 0)

\* the answer to request i arrives (ok) or the request fails: in both cases
\* loadBatchWithPagination returns, having set quotes or error placeholders
BatchReturns(i, ok) ==
  /\ i \in DOMAIN requests
  /\ requests[i].by \in LargeKinds
  /\ requests[i].status = "inflight"
  /\ \E count \in BatchCounts(i, ok) :
       /\ FaultIf(~ok \/ count < requests[i].limit)
       /\ IF ok THEN AssignQuotes(requests[i].cellIds, i, count)
                ELSE SetQuotes([cellId \in Cells(requests[i].cellIds) |-> ErrorQuote])
       /\ LET reqs == [requests EXCEPT
                         ![i].status = IF ok THEN "answered" ELSE "failed",
                         ![i].shown = IF ok THEN "quotes" ELSE "errorPlaceholders",
                         ![i].count = count,
                         ![i].loop = 0]
          IN CASE requests[i].by = "initial" -> AfterInitialBatch(requests[i].call, reqs)
               [] requests[i].by = "timer" ->
                    /\ requests' = reqs
                    /\ UNCHANGED <<large, virtualScroller, scrollers, loops>>
               [] requests[i].by = "scroller" ->
                    /\ requests' = reqs
                    /\ AfterLoad(i)
                    /\ UNCHANGED <<large, virtualScroller>>
  /\ ClearLoadingCells(requests[i].cellIds)
  /\ singles' = singles \o (IF ok THEN <<>> ELSE BatchFallback(requests[i].cellIds, i))
  /\ UNCHANGED <<sweep, selectionVars, slotVars, apiVars, selections, bulk, scraperVars>>

\* the next timer of call c fires: setTimeout(..., (index + 1) * 1000)
TimerFires(c) ==
  /\ c \in DOMAIN large
  /\ large[c].fired < Len(large[c].remainingBatches)
  /\ LET index == large[c].fired
     IN requests' = Append(requests,
                           PaginatedRequest(c, "timer", 0, 0,
                                            large[c].remainingBatches[index + 1],
                                            BatchOffset(large[c].initialBatchSize, index)))
  /\ large' = [large EXCEPT ![c].fired = @ + 1]
  /\ UNCHANGED <<gridVars, apiVars, selections, virtualScroller, scrollers, loops, bulkVars, faults, scraperVars>>

\* the delay of loop l ends: the next iteration calls loadAroundViewport() of
\* the scroller the global names now
DelayEnds(l) ==
  /\ l \in DOMAIN loops
  /\ loops[l].pc = "delay"
  /\ IF loops[l].i = InitialLoads
       THEN /\ loops' = [loops EXCEPT ![l].pc = "finished"]
            /\ UNCHANGED <<scrollers, requests>>
       ELSE /\ LoadAroundViewport(scrollers, requests, virtualScroller, l)
            /\ loops' = [loops EXCEPT
                           ![l].i = @ + 1,
                           ![l].pc = IF Loads(scrollers, virtualScroller)
                                       THEN "awaiting" ELSE "delay"]
  /\ UNCHANGED <<gridVars, apiVars, selections, large, virtualScroller, bulkVars, faults, scraperVars>>

\* handleVirtualScroll(), the debounced scroll listener
HandleVirtualScroll ==
  /\ scrollers # <<>>
  /\ IF virtualScroller # 0 /\ ~scrollers[virtualScroller].isLoading
       THEN LoadAroundViewport(scrollers, requests, virtualScroller, 0)
       ELSE UNCHANGED <<scrollers, requests>>
  /\ UNCHANGED <<gridVars, apiVars, selections, large, virtualScroller, loops, bulkVars, faults, scraperVars>>

\* the requests of fetchBulkQuotes and of fetchQuote at their third stage
BulkRequest(c, cellIds) ==
  [call |-> c, by |-> IF Len(cellIds) > BulkLimit THEN "bulkPaginated" ELSE "bulk",
   scroller |-> 0, loop |-> 0, cellIds |-> cellIds,
   offset |-> 0, limit |-> Len(cellIds), status |-> "inflight", shown |-> "",
   count |-> 0]

SingleRequest(n, cellId) ==
  [call |-> n, by |-> "single", scroller |-> 0, loop |-> 0, cellIds |-> <<cellId>>,
   offset |-> 0, limit |-> 1, status |-> "inflight", shown |-> "", count |-> 0]

\* fetchQuote(cellId) up to the delay of its first stage; i is the failed
\* request whose catch called it (0: called by handleFetchQuote)
fetchQuote(cellId, i) == [cellId |-> cellId, fallbackOf |-> i, pc |-> "staging"]

\* catch of fetchBulkQuotes: cellIds.forEach(cellId => fetchQuote(cellId))
BulkFallback(cellIds, i) == [k \in DOMAIN cellIds |-> fetchQuote(cellIds[k], i)]

\* the calls fetchQuote(cellId) for the cells of cellIds, made by the catch of
\* request i (0: by handleFetchQuote), each up to its first delay
CallFetchQuote(cellIds, i) ==
  /\ singles' = singles \o [k \in DOMAIN cellIds |-> fetchQuote(cellIds[k], i)]
  /\ SetLoadingCells(cellIds)

\* fetchBulkQuotes(cellIds) up to its first delay
CallFetchBulkQuotes(cellIds) ==
  /\ bulk' = Append(bulk, [cellIds |-> cellIds, pc |-> "staging"])
  /\ SetLoadingCells(cellIds)

FetchQuote(total) ==
  /\ CellsToFetch(total)
  /\ total = 1
  /\ CallFetchQuote(<<0>>, 0)
  /\ UNCHANGED <<sweep, selectionVars, slotVars, apiVars, selections, large, requests, virtualScroller,
                 scrollers, loops, bulk, faults, scraperVars>>

FetchBulkQuotes(total) ==
  /\ CellsToFetch(total)
  /\ total > 1
  /\ total <= BulkLimit
  /\ CallFetchBulkQuotes(CellIds(total))
  /\ UNCHANGED <<sweep, selectionVars, slotVars, apiVars, selections, large, requests, virtualScroller,
                 scrollers, loops, singles, faults, scraperVars>>

\* the stage "Browsing to page" of fetchBulkQuotes: the request is sent
BulkStage(c) ==
  /\ c \in DOMAIN bulk
  /\ bulk[c].pc = "staging"
  /\ requests' = Append(requests, BulkRequest(c, bulk[c].cellIds))
  /\ bulk' = [bulk EXCEPT ![c].pc = "awaiting"]
  /\ UpdateLoadingMessage(bulk[c].cellIds)
  /\ UNCHANGED <<sweep, selectionVars, slotVars, loadingCells, apiVars, selections, large,
                 virtualScroller, scrollers, loops, singles, faults, scraperVars>>

\* the request of a call of fetchQuote or fetchBulkQuotes
RequestOf(kinds, c) ==
  CHOOSE i \in DOMAIN requests : requests[i].by \in kinds /\ requests[i].call = c

\* the bulk request is answered with at least one quote (ok) and the answer
\* is stored in window.tempBulkQuotesData, or it fails (HTTP error, success
\* false, no data, exception) and the catch falls back to fetchQuote
BulkReturns(i, ok) ==
  /\ i \in DOMAIN requests
  /\ requests[i].by \in {"bulk", "bulkPaginated"}
  /\ requests[i].status = "inflight"
  /\ \E count \in IF ok THEN AnswerCounts(requests[i].limit, 1) ELSE {0} :
       /\ FaultIf(~ok \/ count < requests[i].limit)
       /\ requests' = [requests EXCEPT ![i].status = IF ok THEN "answered" ELSE "failed",
                                        ![i].count = count]
  /\ bulk' = [bulk EXCEPT ![requests[i].call].pc = IF ok THEN "selected" ELSE "fallback"]
  /\ IF ok
       THEN /\ tempBulkQuotesData' = i
            /\ UNCHANGED <<singles, cellVars>>
       ELSE /\ tempBulkQuotesData' = tempBulkQuotesData
            /\ singles' = singles \o BulkFallback(requests[i].cellIds, i)
            /\ SetLoadingCells(requests[i].cellIds)
  /\ UNCHANGED <<sweep, selectionVars, tempQuoteData, apiVars, selections, large, virtualScroller,
                 scrollers, loops, scraperVars>>

\* fetchBulkQuotes after its last delay: the quotes in window.tempBulkQuotesData
\* are assigned to the cells and the global is deleted; when it is undefined
\* the call throws and its catch falls back to fetchQuote
BulkShows(c) ==
  /\ c \in DOMAIN bulk
  /\ bulk[c].pc = "selected"
  /\ LET i == RequestOf({"bulk", "bulkPaginated"}, c)
         quotesData == tempBulkQuotesData
     IN IF quotesData = 0
          THEN /\ bulk' = [bulk EXCEPT ![c].pc = "fallback"]
               /\ singles' = singles \o BulkFallback(bulk[c].cellIds, i)
               /\ SetLoadingCells(bulk[c].cellIds)
               /\ UNCHANGED requests
          ELSE /\ bulk' = [bulk EXCEPT ![c].pc = "done"]
               /\ AssignQuotes(bulk[c].cellIds, quotesData, requests[quotesData].count)
               /\ ClearLoadingCells(bulk[c].cellIds)
               /\ requests' = [requests EXCEPT ![i].shown = "quotes"]
               /\ UNCHANGED singles
  /\ tempBulkQuotesData' = 0
  /\ UNCHANGED <<sweep, selectionVars, tempQuoteData, apiVars, selections, large, virtualScroller,
                 scrollers, loops, faults, scraperVars>>

\* the stage "Browsing to page" of fetchQuote: POST /api/quotes/random, count 1
SingleStage(n) ==
  /\ n \in DOMAIN singles
  /\ singles[n].pc = "staging"
  /\ requests' = Append(requests, SingleRequest(n, singles[n].cellId))
  /\ singles' = [singles EXCEPT ![n].pc = "awaiting"]
  /\ UpdateLoadingMessage(<<singles[n].cellId>>)
  /\ UNCHANGED <<sweep, selectionVars, slotVars, loadingCells, apiVars, selections, large,
                 virtualScroller, scrollers, loops, bulk, faults, scraperVars>>

\* the single request is answered with a quote (ok) and the quote is stored
\* in window.tempQuoteData, or it fails and the catch gives the cell a mock
\* quote
SingleReturns(i, ok) ==
  /\ i \in DOMAIN requests
  /\ requests[i].by = "single"
  /\ requests[i].status = "inflight"
  /\ FaultIf(~ok)
  /\ requests' = [requests EXCEPT ![i].status = IF ok THEN "answered" ELSE "failed",
                                   ![i].shown = IF ok THEN "" ELSE "mockQuote",
                                   ![i].count = IF ok THEN 1 ELSE 0]
  /\ singles' = [singles EXCEPT ![requests[i].call].pc = IF ok THEN "selected" ELSE "done"]
  /\ IF ok
       THEN /\ tempQuoteData' = i
            /\ UNCHANGED cellVars
       ELSE /\ tempQuoteData' = tempQuoteData
            /\ SetQuotes([cellId \in Cells(requests[i].cellIds) |-> MockQuote])
            /\ ClearLoadingCells(requests[i].cellIds)
  /\ UNCHANGED <<sweep, selectionVars, tempBulkQuotesData, apiVars, selections, large, virtualScroller,
                 scrollers, loops, bulk, scraperVars>>

\* fetchQuote after its last delay: the cell gets the quote that is in
\* window.tempQuoteData and the global is deleted; when it is undefined the
\* call throws and its catch gives the cell a mock quote
SingleShows(n) ==
  /\ n \in DOMAIN singles
  /\ singles[n].pc = "selected"
  /\ LET i == RequestOf({"single"}, n)
         quoteData == tempQuoteData
     IN /\ SetQuotes([cellId \in {singles[n].cellId} |->
                        IF quoteData = 0 THEN MockQuote ELSE Item(quoteData, 1)])
        /\ requests' = [requests EXCEPT
                          ![i].shown = IF quoteData = 0 THEN "mockQuote" ELSE "quotes"]
  /\ tempQuoteData' = 0
  /\ ClearLoadingCells(<<singles[n].cellId>>)
  /\ singles' = [singles EXCEPT ![n].pc = "done"]
  /\ UNCHANGED <<sweep, selectionVars, tempBulkQuotesData, apiVars, selections, large, virtualScroller,
                 scrollers, loops, bulk, faults, scraperVars>>

(* ---------------------------------------------------------------------- *)
(* The request handlers of backend/src/server.js                          *)
\* handleFetchQuote(), the handler of the Space key: the empty selected cells
\* are fetched by the function of their tier; with no selection the focused
\* cell is fetched when it is empty
HandleFetchQuote ==
  /\ presses < MaxPresses
  /\ presses' = presses + 1
  /\ IF Len(selectedCells) > 0
       THEN CASE Len(cellsToFetch) = 0 ->
                   UNCHANGED <<cellVars, large, requests, bulk, singles>>
              [] Len(cellsToFetch) = 1 ->
                   /\ CallFetchQuote(<<cellsToFetch[1]>>, 0)
                   /\ UNCHANGED <<large, requests, bulk>>
              [] Len(cellsToFetch) > 1 /\ Len(cellsToFetch) <= BulkLimit ->
                   /\ CallFetchBulkQuotes(cellsToFetch)
                   /\ UNCHANGED <<large, requests, singles>>
              [] OTHER ->
                   /\ CallFetchLargeBulkQuotes(cellsToFetch)
                   /\ UNCHANGED <<cellVars, bulk, singles>>
       ELSE IF /\ focusedCell # NoCell
               /\ focusedCell \notin DOMAIN gridQuotes
               /\ focusedCell \notin loadingCells
              THEN /\ CallFetchQuote(<<focusedCell>>, 0)
                   /\ UNCHANGED <<large, requests, bulk>>
              ELSE UNCHANGED <<cellVars, large, requests, bulk, singles>>
  /\ UNCHANGED <<sweep, selectedCells, focusedCell, slotVars, apiVars, selections, virtualScroller,
                 scrollers, loops, faults, scraperVars>>

(* ---------------------------------------------------------------------- *)
\* parseInt(v): a number, or NaN
parseInt(v) == [nan |-> v.kind # "int", n |-> IF v.kind = "int" THEN v.value ELSE 0]

\* x || d: NaN and 0 are falsy
OrDefault(x, d) == IF x.nan \/ x.n = 0 THEN d ELSE x.n

PaginatedOffset(q) == OrDefault(parseInt(q.offset), 0)

PaginatedLimit(q) == Min(OrDefault(parseInt(q.limit), DefaultLimit), LimitCap)

\* variant: the schema admits every number
BulkCountValid_anyNumber(v) == v.kind = "int"

\* BulkQuoteRequestSchema.parse(req.body) returns
BulkCountValid(v) == v.kind = "int" /\ v.value >= 1 /\ v.value <= MaxCount

\* getStats(): reading .length of a field that was never assigned throws
getStats ==
  IF "quoteUrls" \in fields /\ "scrapedQuotes" \in fields THEN "stats" ELSE "TypeError"

\* the server's variable scraper: initializeScraper assigns the new object
\* before it awaits initialize(), and nothing resets it
scraper == IF fields = {} THEN "null" ELSE "object"

\* GET /health: scraperReady
scraperReady == scraper # "null"

\* GET /api/stats
GetStats ==
  /\ serverPc = "listening"
  /\ stats' = IF scraper = "null" THEN [status |-> 503, success |-> FALSE]
              ELSE IF getStats = "TypeError" THEN [status |-> 500, success |-> FALSE]
              ELSE [status |-> 200, success |-> TRUE]
  /\ UNCHANGED <<gridVars, query, listing, fields, config, scrape, selections, large, requests,
                 virtualScroller, scrollers, loops, bulkVars, faults, scraperVars>>

\* goodreadsUrl of the items fetchQuotesFromPage extracts from the listing
GoodreadsUrl == IF listing = "links" THEN "link" ELSE "null"

\* QuoteResponseSchema.parse({success, data, count}) returns: goodreadsUrl is
\* z.string().url().optional(), which admits undefined but not null
QuoteResponseValid(quotes) == quotes = <<>> \/ GoodreadsUrl # "null"

\* the status of the answer to the request of r, 0 while there is none: the
\* bulk and random handlers validate their answer and answer 500 when the
\* schema throws
HttpStatus(r) ==
  IF req[r].pc = "error" THEN 500
  ELSE IF req[r].pc # "done" THEN 0
  ELSE IF query.endpoint \in {"bulk", "random"} /\ ~QuoteResponseValid(req[r].result) THEN 500
  ELSE 200

\* the maximum of limit in the endpoint's documentation
DocumentedMaximum == 50

\* GET /api/quotes/paginated
GetPaginated(r) ==
  /\ query.endpoint = "paginated"
  /\ FetchQuotesWithPagination(r, PaginatedOffset(query), PaginatedLimit(query))

\* POST /api/quotes/bulk: the schema throws and the catch answers 500, or the
\* first count quotes are fetched
PostBulk(r) ==
  /\ query.endpoint = "bulk"
  /\ IF BulkCountValid(query.count)
       THEN FetchQuotesWithPagination(r, 0, query.count.value)
       ELSE /\ serverPc = "listening"
            /\ req[r].pc = "idle"
            /\ calls' = calls + 1
            /\ req' = [req EXCEPT ![r].pc = "error"]
            /\ UNCHANGED <<clientVars, counts, faults, serverPc, browser, isInitialized,
                           pageMetadata, pageCache, init, fetchCount, returned>>

\* POST /api/quotes/random: the same schema parses the body before the
\* loading stages and before fetchRandomQuotes(count); when it throws the
\* catch answers 500
PostRandom(r) ==
  /\ query.endpoint = "random"
  /\ IF BulkCountValid(query.count)
       THEN FetchRandomQuotes(r, query.count.value)
       ELSE /\ serverPc = "listening"
            /\ req[r].pc = "idle"
            /\ calls' = calls + 1
            /\ req' = [req EXCEPT ![r].pc = "error"]
            /\ UNCHANGED <<clientVars, counts, faults, serverPc, browser, isInitialized,
                           pageMetadata, pageCache, init, fetchCount, returned>>

(* ---------------------------------------------------------------------- *)
(* scrapeQuotesInParallel(urls) and extractGoodreadsLink(authorUrl)       *)
(* ---------------------------------------------------------------------- *)
\* an item of the batch before its async function has run
WaitingItem(quoteData) ==
  [pc |-> "waiting", page |-> 0, authorPage |-> 0,
   goodreadsUrl |-> quoteData.goodreadsUrl,
   authorPageUrl |-> quoteData.authorPageUrl,
   result |-> "none"]

\* Math.min(this.config.maxConcurrentTabs, quotesToScrape.length)
Concurrency(quotesToScrape) == Min(config.maxConcurrentTabs, Len(quotesToScrape))

\* batch = quotesToScrape.slice(i, i + concurrency); every item of the batch
\* runs up to its await this.browser.newPage()
StartBatch(items, i, concurrency) ==
  [k \in DOMAIN items |->
     IF k > i /\ k <= i + concurrency THEN [items[k] EXCEPT !.pc = "newPage"] ELSE items[k]]

scrapeUnchanged ==
  UNCHANGED <<gridVars, query, listing, stats, config, selections, large, requests, virtualScroller,
              scrollers, loops, bulkVars, scraperVars>>

\* scrapeQuotesInParallel(urls): without urls the unassigned this.quoteUrls is
\* read and .length throws; an empty list throws
ScrapeQuotesInParallel(urls) ==
  /\ serverPc = "listening"
  /\ scrape.pc = "idle"
  /\ IF ~urls.given \/ urls.list = <<>>
       THEN scrape' = [scrape EXCEPT !.pc = "error"]
       ELSE LET quotesToScrape == urls.list
            IN scrape' = [pc |-> "batch",
                          quotesToScrape |-> quotesToScrape,
                          concurrency |-> Concurrency(quotesToScrape),
                          i |-> 0,
                          items |-> StartBatch([k \in DOMAIN quotesToScrape |->
                                                  WaitingItem(quotesToScrape[k])],
                                               0, Concurrency(quotesToScrape)),
                          results |-> <<>>]
  /\ UNCHANGED <<fields, faults>>
  /\ scrapeUnchanged

\* QuoteSchema.parse(...) returned: the item is kept with this link
Validated(item, goodreadsUrl) ==
  [item EXCEPT !.pc = "closing", !.goodreadsUrl = goodreadsUrl, !.result = "quote"]

\* the catch of the item: return null
Caught(item) == [item EXCEPT !.pc = "closing", !.result = "null"]

\* the tab of item k opens and the item runs up to its next await, or
\* newPage() rejects (outside the try) and the item's promise rejects
ItemNewPage(k, ok) ==
  /\ k \in DOMAIN scrape.items
  /\ scrape.items[k].pc = "newPage"
  /\ ok => browser
  /\ FaultIf(~ok /\ browser)
  /\ LET item == [scrape.items[k] EXCEPT !.page = 1]
     IN scrape' = [scrape EXCEPT !.items[k] =
          IF ~ok THEN [scrape.items[k] EXCEPT !.pc = "rejected"]
          ELSE IF item.goodreadsUrl = "null" /\ item.authorPageUrl
                 THEN [item EXCEPT !.pc = "extractNewPage"]
          ELSE IF item.goodreadsUrl = "null"
                 THEN [item EXCEPT !.pc = "quotePage"]
          ELSE Validated(item, item.goodreadsUrl)]
  /\ UNCHANGED fields
  /\ scrapeUnchanged

\* extractGoodreadsLink: its own tab opens, or newPage() rejects (outside its
\* try) and the item's catch returns null
ExtractNewPage(k, ok) ==
  /\ k \in DOMAIN scrape.items
  /\ scrape.items[k].pc = "extractNewPage"
  /\ FaultIf(~ok)
  /\ scrape' = [scrape EXCEPT !.items[k] =
       IF ok THEN [@ EXCEPT !.pc = "authorPage", !.authorPage = 1]
       ELSE Caught(@)]
  /\ UNCHANGED fields
  /\ scrapeUnchanged

\* the author page shows a link, shows none, or cannot be loaded (caught in
\* extractGoodreadsLink, which returns null); its tab is closed
AuthorPage(k, outcome) ==
  /\ k \in DOMAIN scrape.items
  /\ scrape.items[k].pc = "authorPage"
  /\ FaultIf(outcome = "fails")
  /\ scrape' = [scrape EXCEPT !.items[k] =
       IF outcome = "link" THEN Validated([@ EXCEPT !.authorPage = 0], "link")
       ELSE [@ EXCEPT !.authorPage = 0, !.pc = "quotePage"]]
  /\ UNCHANGED fields
  /\ scrapeUnchanged

\* the quote's page shows a link, shows none (the search link is generated),
\* or cannot be loaded (the item's catch returns null)
QuotePage(k, outcome) ==
  /\ k \in DOMAIN scrape.items
  /\ scrape.items[k].pc = "quotePage"
  /\ FaultIf(outcome = "fails")
  /\ scrape' = [scrape EXCEPT !.items[k] =
       IF outcome = "link" THEN Validated(@, "link")
       ELSE IF outcome = "none" THEN Validated(@, "search")
       ELSE Caught(@)]
  /\ UNCHANGED fields
  /\ scrapeUnchanged

\* finally: await page.close()
ItemClosed(k) ==
  /\ k \in DOMAIN scrape.items
  /\ scrape.items[k].pc = "closing"
  /\ scrape' = [scrape EXCEPT !.items[k].pc = "settled", !.items[k].page = 0]
  /\ UNCHANGED <<fields, faults>>
  /\ scrapeUnchanged

CurrentBatch == {k \in DOMAIN scrape.items : k > scrape.i /\ k <= scrape.i + scrape.concurrency}

Kept(items, batch) ==
  SelectSeq([k \in DOMAIN items |-> [index |-> k, item |-> items[k]]],
            LAMBDA e : e.index \in batch /\ e.item.result = "quote")

\* Promise.all(batchPromises) rejects: scrapeQuotesInParallel throws
BatchRejects ==
  /\ scrape.pc = "batch"
  /\ \E k \in CurrentBatch : scrape.items[k].pc = "rejected"
  /\ scrape' = [scrape EXCEPT !.pc = "error"]
  /\ UNCHANGED <<fields, faults>>
  /\ scrapeUnchanged

\* Promise.all(batchPromises) resolves: the items that are not null are
\* pushed; the next batch starts after the delay, or the results are stored
BatchResolves ==
  /\ scrape.pc = "batch"
  /\ \A k \in CurrentBatch : scrape.items[k].pc = "settled"
  /\ LET results == scrape.results \o Kept(scrape.items, CurrentBatch)
         more == scrape.i + scrape.concurrency < Len(scrape.quotesToScrape)
     IN /\ scrape' = [scrape EXCEPT !.results = results,
                                     !.pc = IF more THEN "delay" ELSE "done"]
        /\ fields' = IF more THEN fields ELSE fields \cup {"scrapedQuotes"}
  /\ UNCHANGED faults
  /\ scrapeUnchanged

\* the delay between two batches ends
NextBatchStarts ==
  /\ scrape.pc = "delay"
  /\ scrape' = [scrape EXCEPT !.pc = "batch",
                               !.i = @ + scrape.concurrency,
                               !.items = StartBatch(@, scrape.i + scrape.concurrency,
                                                    scrape.concurrency)]
  /\ UNCHANGED <<fields, faults>>
  /\ scrapeUnchanged

(* ---------------------------------------------------------------------- *)
(* Specifications                                                         *)
(* ---------------------------------------------------------------------- *)
InitScraper ==
  /\ serverPc = "starting"
  /\ browser = FALSE
  /\ isInitialized = FALSE
  /\ pageMetadata = NoMetadata
  /\ pageCache = <<>>
  /\ init = [c \in Callers |-> IF c = Startup THEN [NoWalk EXCEPT !.pc = "launch"]
                               ELSE NoWalk]
  /\ req = [r \in Clients |-> IdleReq]
  /\ calls = 0
  /\ faults = 0
  /\ fetchCount = [p \in PageNumbers |-> 0]
  /\ returned = [p \in PageNumbers |-> {}]

\* the page before any large selection was fetched
NoCalls ==
  /\ large = <<>>
  /\ requests = <<>>
  /\ virtualScroller = 0
  /\ scrollers = <<>>
  /\ loops = <<>>
  /\ bulk = <<>>
  /\ singles = <<>>

\* initialState of the QuoteContext with a selection and a focused cell, and
\* the two globals of the page undefined
InitGridState(selected, focused) ==
  /\ selectedCells = selected
  /\ focusedCell = focused
  /\ presses = 0
  /\ gridQuotes = <<>>
  /\ loadingCells = {}
  /\ tempQuoteData = 0
  /\ tempBulkQuotesData = 0

\* no sweep of consecutive ranges is made
NoSweep == [limit |-> 0, answers |-> 0, items |-> <<>>, ended |-> FALSE, failed |-> FALSE]

InitPage == NoCalls /\ InitGridState(<<>>, NoCell) /\ sweep = NoSweep

\* a value of a query string or of a JSON body: absent, not a number, a number
Missing == [kind |-> "missing", value |-> 0]
Text == [kind |-> "text", value |-> 0]
Number(n) == [kind |-> "int", value |-> n]

NoQuery == [endpoint |-> "none", offset |-> Missing, limit |-> Missing, count |-> Missing]

\* the fields the constructor assigns
ConstructorFields ==
  {"config", "browser", "baseUrl", "pageCache", "pageMetadata", "quotesPerPage",
   "maxPages", "isInitialized"}

NoStats == [status |-> 0, success |-> FALSE]

NoScrape == [pc |-> "idle", quotesToScrape |-> <<>>, concurrency |-> 0, i |-> 0,
             items |-> <<>>, results |-> <<>>]

\* new QuoteScraper(config) with maxConcurrentTabs tabs, nothing else called
NewObject(maxConcurrentTabs) ==
  /\ fields = ConstructorFields
  /\ stats = NoStats
  /\ config = [maxConcurrentTabs |-> maxConcurrentTabs]
  /\ scrape = NoScrape

\* the object, and a site whose listing shows no Goodreads link
InitObject(maxConcurrentTabs) == listing = "noLinks" /\ NewObject(maxConcurrentTabs)

InitSession ==
  /\ InitScraper
  /\ InitObject(DefaultMaxConcurrentTabs)
  /\ query = NoQuery
  /\ selections = <<>>
  /\ InitPage

Init == counts \in ConcSources /\ InitSession

InitRange == counts \in RangeSources /\ InitSession

\* the requests of the two-client runs: the first item, the first two items,
\* the second item
ConcRequests == {[offset |-> 0, limit |-> 1], [offset |-> 0, limit |-> 2],
                 [offset |-> 1, limit |-> 1]}

\* the requests of the one-client runs: short ranges at small offsets and at
\* the page boundaries, the whole site from offset 0, a range that starts at
\* the end of the site, and the scenario's request
PrefixTotals == {SumSeq(SubSeq(counts, 1, k)) : k \in 0..Len(counts)}
RangeRequests ==
  [offset : (0..MaxOffset) \cup PrefixTotals, limit : 1..MaxLimit]
    \cup [offset : {0}, limit : PrefixTotals \ {0}]
    \cup [offset : PrefixTotals, limit : {BoundaryLimit}]
    \cup {ScenarioRequest}

Initialize ==
  \E c \in Callers :
    \/ LaunchBrowser(c)
    \/ LaunchFails(c)
    \/ OpenMetadataTab(c)
    \/ OpenMetadataTabFails(c)
    \/ WalkFirstPage(c)
    \/ WalkNextPage(c)
    \/ WalkEnds(c)
    \/ WalkFails(c)
    \/ InitializeReturns(c)

Resolve(r) ==
  \/ ResumeAfterInitialize(r)
  \/ \E i \in 1..maxPages, ok \in BOOLEAN : FetchCompletes(r, i, ok)
  \/ \E i \in 1..maxPages : FetchTabFails(r, i)
  \/ JoinPages(r)
  \/ ExtendCall(r)
  \/ \E ok \in BOOLEAN : ExtendCompletes(r, ok)
  \/ ExtendTabFails(r)
  \/ ReturnSlice(r)
  \/ Respond(r)

\* two clients whose requests overlap
Next ==
  \/ Initialize
  \/ \E r \in Clients, q \in ConcRequests :
       calls < MaxCalls /\ FetchQuotesWithPagination(r, q.offset, q.limit)
  \/ \E r \in Clients : Resolve(r)

Spec == Init /\ [][Next]_vars

\* one request at a time, over the wider set of sites and ranges
NextRange ==
  \/ Initialize
  \/ \E q \in RangeRequests :
       calls < 1 /\ FetchQuotesWithPagination(1, q.offset, q.limit)
  \/ Resolve(1)

SpecRange == InitRange /\ [][NextRange]_vars

\* sites longer than maxPages and longer than the walk limit; the walk never
\* looks past page WalkLimit, so the longest stands for a site whose chain of
\* "Next" links never ends
LongSources ==
  {[p \in 1..n |-> SmallPage] : n \in {maxPages + 1, WalkLimit, WalkLimit + 1}}

WalkSources == RangeSources \cup LongSources

InitWalk == counts \in WalkSources /\ InitSession

\* the startup of the server alone: initialize() and the metadata walk
NextWalk == Initialize

SpecWalk == InitWalk /\ [][NextWalk]_vars

\* every await of initialize() settles: puppeteer resolves or rejects each
\* call (the navigations carry timeouts)
FairSpecWalk == SpecWalk /\ WF_vars(NextWalk)

\* the sites of the random runs: up to three pages of up to two quotes
RandomSources == UNION {[1..n -> {0, 1, 2}] : n \in {1, 2, 3}}

\* the counts of the random runs, all served by the subset strategy
RandomCounts == {1, 2, 3}

InitRandom == counts \in RandomSources /\ InitSession

ResolveRandom(r) ==
  \/ ResumeRandomAfterInitialize(r)
  \/ \E randomPage \in PageNumbers : DrawPage(r, randomPage)
  \/ SubsetFetch(r)
  \/ \E i \in 1..maxPages, ok \in BOOLEAN : FetchCompletes(r, i, ok)
  \/ \E i \in 1..maxPages : FetchTabFails(r, i)
  \/ ShuffleAndSlice(r)
  \/ Respond(r)

\* one request for random quotes
NextRandom ==
  \/ Initialize
  \/ \E count \in RandomCounts :
       calls < 1 /\ FetchRandomQuotes(RandomClient, count)
  \/ ResolveRandom(RandomClient)

SpecRandom == InitRandom /\ [][NextRandom]_vars

\* Math.random() is fair: while pages are missing, a page that was not drawn
\* before is eventually drawn
FairSpecRandom ==
  SpecRandom /\ WF_vars(\E randomPage \in PageNumbers : DrawPage(RandomClient, randomPage))

\* the sites of the runs at the threshold of the subset strategy
DispatchSources == ConcSources \cup {<<1, 1, 1>>}

\* the counts on both sides of the threshold
DispatchCounts == {SubsetThreshold, SubsetThreshold + 1}

InitDispatch == counts \in DispatchSources /\ InitSession

\* initialize() on sites whose walk is not interrupted
InitializeWalked ==
  \E c \in Callers :
    \/ LaunchBrowser(c)
    \/ LaunchFails(c)
    \/ OpenMetadataTab(c)
    \/ OpenMetadataTabFails(c)
    \/ WalkFirstPage(c)
    \/ WalkNextPage(c)
    \/ WalkEnds(c)
    \/ InitializeReturns(c)

\* the steps of a range request that needs no additional page
ResolvePlanned(r) ==
  \/ ResumeAfterInitialize(r)
  \/ \E i \in 1..maxPages, ok \in BOOLEAN : FetchCompletes(r, i, ok)
  \/ \E i \in 1..maxPages : FetchTabFails(r, i)
  \/ JoinPages(r)
  \/ ReturnSlice(r)
  \/ Respond(r)

\* one client asks for random quotes, the other for the same number of quotes
\* from offset 0
NextDispatch ==
  \/ InitializeWalked
  \/ \E count \in DispatchCounts :
       calls < MaxCalls /\ FetchRandomQuotes(RandomClient, count)
  \/ calls < MaxCalls
       /\ FetchQuotesWithPagination(RangeClient, 0, SubsetThreshold + 1)
  \/ ResolveRandom(RandomClient)
  \/ ResolvePlanned(RandomClient)
  \/ ResolvePlanned(RangeClient)

SpecDispatch == InitDispatch /\ [][NextDispatch]_vars

\* one request to either resolver: a range, or random quotes from a subset of
\* the pages
NextPages ==
  \/ Initialize
  \/ \E q \in RangeRequests :
       calls < 1 /\ FetchQuotesWithPagination(RangeClient, q.offset, q.limit)
  \/ \E count \in RandomCounts :
       calls < 1 /\ FetchRandomQuotes(RandomClient, count)
  \/ Resolve(RangeClient)
  \/ ResolveRandom(RandomClient)

\* on the sites of the random runs (pages of at most two quotes), which keep
\* the shuffles few
SpecPages == InitRandom /\ [][NextPages]_vars

\* the client asks for the next range of its sweep: offset = limit times the
\* number of answers it has received (offsets 0, L, 2L, ...), as the batches
\* of fetchLargeBulkQuotes and of the virtual scroller do
SweepRequest ==
  /\ ~sweep.ended
  /\ sweep.answers < MaxSweep
  /\ FetchQuotesWithPagination(RangeClient, sweep.answers * sweep.limit, sweep.limit)

\* the answer arrives: its items are appended to what the sweep has got; an
\* answer of fewer than limit items is the end of the source
SweepAnswer ==
  LET q == req[RangeClient]
  IN /\ q.pc \in {"done", "error"}
     /\ \A i \in DOMAIN q.slots : q.slots[i].state # "open"
     /\ req' = [req EXCEPT ![RangeClient] = IdleReq]
     /\ sweep' = [sweep EXCEPT !.answers = @ + 1,
                               !.items = @ \o q.result,
                               !.ended = Len(q.result) < sweep.limit,
                               !.failed = @ \/ q.failed \/ q.pc = "error"]
     /\ UNCHANGED <<selectionVars, cellVars, slotVars, apiVars, selections, large, requests,
                    virtualScroller, scrollers, loops, bulkVars, counts, faults, serverPc,
                    browser, isInitialized, pageMetadata, pageCache, init, calls, fetchCount,
                    returned>>

\* sites of up to MaxSourcePages pages, swept with a limit of 1..MaxLimit
InitSweep ==
  /\ counts \in RangeSources
  /\ InitScraper
  /\ InitObject(DefaultMaxConcurrentTabs)
  /\ query = NoQuery /\ selections = <<>> /\ NoCalls /\ InitGridState(<<>>, NoCell)
  /\ \E l \in 1..MaxLimit : sweep = [NoSweep EXCEPT !.limit = l]

NextSweep ==
  \/ InitializeWalked
  \/ SweepRequest
  \/ \E i \in 1..maxPages, ok \in BOOLEAN : FetchCompletes(RangeClient, i, ok)
  \/ \E i \in 1..maxPages : FetchTabFails(RangeClient, i)
  \/ JoinPages(RangeClient)
  \/ ExtendCall(RangeClient)
  \/ \E ok \in BOOLEAN : ExtendCompletes(RangeClient, ok)
  \/ ExtendTabFails(RangeClient)
  \/ ReturnSlice(RangeClient)
  \/ SweepAnswer

SpecSweep == InitSweep /\ [][NextSweep]_vars

\* a selection made on the fresh page
First(total) == [total |-> total, issued |-> 0]

\* one selection of each mode and boundary size
SelectionPlans == {<<First(n)>> : n \in {1, 2, 3, 101, 250, 300, 600, 601, 700}}

\* two large selections, the second one made when the page has issued two
\* requests
ReselectPlans == {<<First(601), [total |-> 601, issued |-> 2]>>}

SelectionSizes == UNION {{plan[k].total : k \in DOMAIN plan} : plan \in SelectionPlans}

InitLarge ==
  counts = <<>> /\ InitScraper /\ InitObject(DefaultMaxConcurrentTabs)
    /\ query = NoQuery /\ selections \in SelectionPlans /\ InitPage

\* what the page does by itself: answers arrive, timers fire, delays end,
\* scroll signals are handled
PageSteps ==
  \/ \E c \in DOMAIN bulk : BulkStage(c)
  \/ \E i \in DOMAIN requests, ok \in BOOLEAN : BulkReturns(i, ok)
  \/ \E c \in DOMAIN bulk : BulkShows(c)
  \/ \E n \in DOMAIN singles : SingleStage(n)
  \/ \E i \in DOMAIN requests, ok \in BOOLEAN : SingleReturns(i, ok)
  \/ \E n \in DOMAIN singles : SingleShows(n)
  \/ \E i \in DOMAIN requests, ok \in BOOLEAN : BatchReturns(i, ok)
  \/ \E c \in DOMAIN large : TimerFires(c)
  \/ \E l \in DOMAIN loops : DelayEnds(l)
  \/ HandleVirtualScroll

NextLarge ==
  \/ \E total \in SelectionSizes : FetchQuote(total)
  \/ \E total \in SelectionSizes : FetchBulkQuotes(total)
  \/ \E total \in SelectionSizes : FetchLargeBulkQuotes(total)
  \/ PageSteps

SpecLarge == InitLarge /\ [][NextLarge]_vars

\* one selection large enough for virtual scrolling; no timer is ever set
ScrollSelections == {<<First(n)>> : n \in {601, 700}}

InitScroll ==
  counts = <<>> /\ InitScraper /\ InitObject(DefaultMaxConcurrentTabs)
    /\ query = NoQuery /\ selections \in ScrollSelections /\ InitPage

ScrollSteps ==
  \/ \E i \in DOMAIN requests, ok \in BOOLEAN : BatchReturns(i, ok)
  \/ \E l \in DOMAIN loops : DelayEnds(l)
  \/ HandleVirtualScroll

NextScroll ==
  \/ \E total \in SelectionSizes : FetchLargeBulkQuotes(total)
  \/ ScrollSteps

SpecScroll == InitScroll /\ [][NextScroll]_vars

\* scroll signals keep arriving and every request is answered or fails
FairSpecScroll == SpecScroll /\ WF_vars(ScrollSteps)

\* virtual scrolling set up a second time while the first is at work
InitReselect ==
  counts = <<>> /\ InitScraper /\ InitObject(DefaultMaxConcurrentTabs)
    /\ query = NoQuery /\ selections \in ReselectPlans /\ InitPage

SpecReselect == InitReselect /\ [][NextScroll]_vars

\* the selections the user has made when Space is pressed: none, one cell,
\* two cells, one more than the bulk tier takes
GridSelections == {<<>>, <<4>>, <<4, 7>>, [k \in 1..(BulkLimit + 1) |-> k + 2]}

\* the page with a selection and a focused cell; Space is pressed up to
\* MaxPresses times while earlier fetches run
InitGrid ==
  /\ counts = <<>> /\ InitScraper /\ InitObject(DefaultMaxConcurrentTabs)
  /\ query = NoQuery /\ selections = <<>> /\ NoCalls /\ sweep = NoSweep
  /\ \E selected \in GridSelections, focused \in {NoCell, 0, 4} :
       InitGridState(selected, focused)

\* no selection of the grid reaches virtual scrolling: answers arrive, the
\* calls go on after their delays, timers fire
GridSteps ==
  \/ \E c \in DOMAIN bulk : BulkStage(c)
  \/ \E i \in DOMAIN requests, ok \in BOOLEAN : BulkReturns(i, ok)
  \/ \E c \in DOMAIN bulk : BulkShows(c)
  \/ \E n \in DOMAIN singles : SingleStage(n)
  \/ \E i \in DOMAIN requests, ok \in BOOLEAN : SingleReturns(i, ok)
  \/ \E n \in DOMAIN singles : SingleShows(n)
  \/ \E i \in DOMAIN requests, ok \in BOOLEAN : BatchReturns(i, ok)
  \/ \E c \in DOMAIN large : TimerFires(c)

NextGrid ==
  \/ HandleFetchQuote
  \/ GridSteps

SpecGrid == InitGrid /\ [][NextGrid]_vars

\* every request is answered or fails, every delay ends and every timer fires
FairSpecGrid == SpecGrid /\ WF_vars(GridSteps)

\* one request to the API: in bounds, or with a value out of bounds
ApiQueries ==
  {[endpoint |-> "paginated", offset |-> o, limit |-> l, count |-> Missing] :
     o \in {Missing, Text, Number(0), Number(1)},
     l \in {Missing, Text, Number(0), Number(1), Number(2), Number(LimitCap + 1)}}
  \cup
  {[endpoint |-> "bulk", offset |-> Missing, limit |-> Missing, count |-> c] :
     c \in {Missing, Text, Number(0), Number(1), Number(2), Number(MaxCount + 1)}}
  \cup
  {[endpoint |-> "random", offset |-> Missing, limit |-> Missing, count |-> c] :
     c \in {Missing, Text, Number(0), Number(1), Number(2), Number(MaxCount + 1)}}

InitApi ==
  /\ counts \in ConcSources
  /\ InitScraper
  /\ listing \in {"links", "noLinks"}
  /\ NewObject(DefaultMaxConcurrentTabs)
  /\ query \in ApiQueries
  /\ selections = <<>>
  /\ InitPage

NextApi ==
  \/ InitializeWalked
  \/ calls < 1 /\ GetPaginated(RangeClient)
  \/ calls < 1 /\ PostBulk(RangeClient)
  \/ calls < 1 /\ PostRandom(RandomClient)
  \/ Resolve(RangeClient)
  \/ ResolveRandom(RandomClient)
  \/ GetStats

SpecApi == InitApi /\ [][NextApi]_vars

\* the items passed to scrapeQuotesInParallel: with the link of the listing,
\* with the author's page only, with neither
QuoteKinds ==
  {[goodreadsUrl |-> "link", authorPageUrl |-> TRUE],
   [goodreadsUrl |-> "null", authorPageUrl |-> TRUE],
   [goodreadsUrl |-> "null", authorPageUrl |-> FALSE]}

\* the argument urls: not given (null), or a list of up to three items
ScrapeInputs ==
  {[given |-> FALSE, list |-> <<>>]}
    \cup {[given |-> TRUE, list |-> l] :
            l \in {<<>>} \cup UNION {[1..n -> QuoteKinds] : n \in {1, 2, 3}}}

InitScrape ==
  /\ counts = <<1, 1>>
  /\ InitScraper
  /\ \E maxConcurrentTabs \in {1, 2} : InitObject(maxConcurrentTabs)
  /\ query = NoQuery
  /\ selections = <<>>
  /\ InitPage

NextScrape ==
  \/ InitializeWalked
  \/ \E urls \in ScrapeInputs : ScrapeQuotesInParallel(urls)
  \/ \E k \in DOMAIN scrape.items, ok \in BOOLEAN : ItemNewPage(k, ok)
  \/ \E k \in DOMAIN scrape.items, ok \in BOOLEAN : ExtractNewPage(k, ok)
  \/ \E k \in DOMAIN scrape.items, outcome \in {"link", "none", "fails"} : AuthorPage(k, outcome)
  \/ \E k \in DOMAIN scrape.items, outcome \in {"link", "none", "fails"} : QuotePage(k, outcome)
  \/ \E k \in DOMAIN scrape.items : ItemClosed(k)
  \/ BatchRejects
  \/ BatchResolves
  \/ NextBatchStarts
  \/ GetStats

SpecScrape == InitScrape /\ [][NextScrape]_vars

(* ---------------------------------------------------------------------- *)
(* Reference values the claims compare the resolver with                  *)
(* ---------------------------------------------------------------------- *)
\* the number of items on pages 1..totalPages of the site
TotalAvailable ==
  SumSeq([p \in 1..pageMetadata.totalPages |-> QuotesOn(p)])

\* pages 1..totalPages concatenated in page order
FlatSource == Flat([p \in 1..pageMetadata.totalPages |-> PageItems(p)])

\* the metadata was written by a walk that reached its end
CompletedWalk == pageMetadata # NoMetadata /\ pageMetadata # FallbackMetadata

\* request r has returned and none of its page fetches failed
Returned(r) == req[r].pc = "done" /\ ~req[r].failed

(* ---------------------------------------------------------------------- *)
(* Claims                                                                 *)
(* ---------------------------------------------------------------------- *)

\* C1: with metadata from a completed walk and no fetch failure,
\* fetchQuotesWithPagination(offset, limit) returns exactly
\* min(limit, max(0, totalAvailable - offset)) items.
C1_ExactLength ==
  \A r \in Clients :
    Returned(r) /\ CompletedWalk =>
      Len(req[r].result) = Min(req[r].limit, Max(0, TotalAvailable - req[r].offset))

\* C2: the i-th returned item is the item at logical position offset + i of
\* the pages 1..totalPages concatenated in page order.
C2_StartsAtOffset ==
  \A r \in Clients :
    Returned(r) /\ CompletedWalk =>
      \A i \in 1..Len(req[r].result) :
        /\ req[r].offset + i <= Len(FlatSource)
        /\ req[r].result[i] = FlatSource[req[r].offset + i]

\* C3: fetchQuotesWithPagination(0, totalAvailable) returns every item of
\* pages 1..totalPages exactly once, in source order.
C3_WholeSource ==
  \A r \in Clients :
    Returned(r) /\ req[r].offset = 0 /\ req[r].limit = TotalAvailable =>
      req[r].result = FlatSource

C3_Witness ==
  \E r \in Clients :
    /\ Returned(r) /\ req[r].offset = 0 /\ req[r].limit = TotalAvailable
    /\ CompletedWalk /\ pageMetadata.totalPages >= 2
    /\ QuotesOn(1) > 0 /\ QuotesOn(2) > 0 /\ QuotesOn(1) # QuotesOn(2)
    /\ req[r].result = FlatSource

\* C4: with page counts [10, 10, 7], fetchQuotesWithPagination(15, 10) plans
\* startPage 3 and endPage 4, fetches only page 3, uses localStart 1, fetches
\* no additional page and returns the 6 items at indices 1..6 of page 3; it
\* does not fail.
C4_Scenario ==
  \A r \in Clients :
    counts = ScenarioCounts /\ CompletedWalk
      /\ req[r].offset = ScenarioRequest.offset /\ req[r].limit = ScenarioRequest.limit =>
        /\ faults = 0 => req[r].pc # "error"
        /\ Returned(r) =>
             /\ pageMetadata.quotesPerPage = 7 /\ pageMetadata.totalPages = 3
             /\ req[r].startPage = 3 /\ req[r].endPage = 4
             /\ [i \in DOMAIN req[r].slots |-> req[r].slots[i].page] = <<3>>
             /\ StartIndex(req[r]) = 1
             /\ req[r].additionalPage = req[r].endPage + 1
             /\ req[r].allQuotes = PageItems(3)
             /\ req[r].result = [i \in 1..6 |-> <<3, i>>]

C4_Witness ==
  \E r \in Clients :
    /\ counts = ScenarioCounts /\ CompletedWalk /\ Returned(r)
    /\ req[r].offset = ScenarioRequest.offset /\ req[r].limit = ScenarioRequest.limit
    /\ Len(req[r].result) = 6

\* C5: fetchQuotesWithPagination(totalAvailable, 10) returns an empty list.
C5_EmptyAtEnd ==
  \A r \in Clients :
    Returned(r) /\ faults = 0
      /\ req[r].offset = TotalAvailable /\ req[r].limit = BoundaryLimit =>
        req[r].result = <<>>

\* C6: adaptive extension.  After the planned pages are joined the window
\* is the concatenation, in ascending page order, of pages startPage up to the
\* last page fetched; an additional page (endPage+1, endPage+2, ...) is
\* fetched only while the window holds fewer than localStart + limit items
\* and the page is at most totalPages; the call returns only when the window
\* suffices or no page up to totalPages is left, so a request is satisfied in
\* full whenever pages startPage..totalPages hold localStart + limit items.
C6_AdaptiveExtension ==
  \A r \in Clients :
    LET q == req[r]
        needed == StartIndex(q) + q.limit
        last == Min(q.additionalPage - 1, pageMetadata.totalPages)
        reach == SumSeq([k \in 1..Max(pageMetadata.totalPages - q.startPage + 1, 0) |->
                           QuotesOn(q.startPage + k - 1)])
    IN q.pc \in {"extend", "extendWait", "done"} =>
         /\ q.additionalPage >= q.endPage + 1
         /\ ~q.failed =>
              q.allQuotes = Flat([k \in 1..Max(last - q.startPage + 1, 0) |->
                                    PageItems(q.startPage + k - 1)])
         /\ q.pc = "extendWait" =>
              Len(q.allQuotes) < needed /\ q.additionalPage <= pageMetadata.totalPages
         /\ ~q.failed /\ q.pc # "extendWait" /\ q.additionalPage > q.endPage + 1 =>
              Len(q.allQuotes) - QuotesOn(q.additionalPage - 1) < needed
         /\ q.pc = "done" =>
              /\ Len(q.allQuotes) >= needed \/ q.additionalPage > pageMetadata.totalPages
              /\ Len(q.result) = Min(q.limit, Max(0, Len(q.allQuotes) - StartIndex(q)))
              /\ ~q.failed /\ reach >= needed => Len(q.result) = q.limit

C6_Witness ==
  \E r \in Clients :
    /\ Returned(r)
    /\ Len(Flat(PageResults(req[r]))) < StartIndex(req[r]) + req[r].limit
    /\ \E i \in DOMAIN req[r].slots :
         Len(req[r].slots[i].result) < req[r].quotesPerPage
    /\ req[r].additionalPage > req[r].endPage + 1
    /\ Len(req[r].result) = req[r].limit

\* (page, index) of a precedes (page, index) of b in source order
Precedes(a, b) == a[1] < b[1] \/ (a[1] = b[1] /\ a[2] < b[2])

\* C7: whatever the order in which the concurrently issued page fetches of a
\* call complete, the joined window lists the pages in ascending page number
\* and the items of a page in the order the site returned them.
C7_PageOrder ==
  \A r \in Clients :
    req[r].pc \in {"extend", "extendWait", "done"} =>
      \A i, j \in 1..Len(req[r].allQuotes) :
        i < j => Precedes(req[r].allQuotes[i], req[r].allQuotes[j])

C7_Witness ==
  \E r \in Clients :
    /\ req[r].pc \in {"extend", "done"}
    /\ Len(req[r].completed) >= 2
    /\ req[r].completed[1] > req[r].completed[2]
    /\ \A i \in DOMAIN req[r].slots : req[r].slots[i].result # <<>>

\* a cache entry, once written, keeps its list
CacheEntriesKept ==
  \A p \in DOMAIN pageCache :
    p \in DOMAIN pageCache' /\ pageCache'[p] = pageCache[p]

\* C8: any two calls fetchQuotesFromPage(n) return identical lists, whatever
\* the outcome of the first call's external fetch, and a cache entry is never
\* changed after it is first written.
C8_Idempotent ==
  /\ [](\A p \in PageNumbers : Cardinality(returned[p]) <= 1)
  /\ [][CacheEntriesKept]_vars

\* C8 as amended: two calls fetchQuotesFromPage(n) return identical lists
\* unless the external fetch of one of them failed (a failed fetch returns
\* the empty list and writes nothing to the cache); a cache entry is never
\* changed after it is first written.
C8_IdempotentUnlessFailed ==
  /\ [](\A p \in PageNumbers :
          /\ Cardinality(returned[p] \ {<<>>}) <= 1
          /\ p \in DOMAIN pageCache => pageCache[p] # <<>> /\ returned[p] \subseteq {<<>>, pageCache[p]})
  /\ [][CacheEntriesKept]_vars

C8_Witness ==
  \E p \in DOMAIN pageCache :
    /\ fetchCount[p] >= 2
    /\ \A r \in Clients : \E i \in DOMAIN req[r].slots :
         /\ req[r].slots[i].page = p
         /\ req[r].slots[i].state = "done"
         /\ req[r].slots[i].result = pageCache[p]

\* C9: a call fetchQuotesFromPage(n) made while page n is in the cache
\* returns the cached list at once and opens no external fetch.
C9_CacheHit ==
  [][\A r \in Clients :
       /\ req[r].pc \in {"idle", "initialized"} /\ req'[r].pc = "fetching" =>
            \A i \in DOMAIN req'[r].slots :
              LET s == req'[r].slots[i]
              IN s.page \in DOMAIN pageCache =>
                   s.state = "done" /\ s.result = pageCache[s.page]
       /\ req[r].pc = "extend" /\ req'[r] # req[r]
            /\ req[r].additionalPage \in DOMAIN pageCache /\ req'[r].pc # "done" =>
              /\ req'[r].pc = "extend"
              /\ req'[r].allQuotes = req[r].allQuotes \o pageCache[req[r].additionalPage]
     ]_vars

C9_Witness ==
  \E r \in Clients : \E i \in DOMAIN req[r].slots :
    /\ req[r].slots[i].state = "done"
    /\ req[r].slots[i].page \in DOMAIN pageCache
    /\ \A k \in DOMAIN req[r].completed : req[r].completed[k] # i

\* C10: each page number is fetched from the external source at most once,
\* under every interleaving of concurrent requests (stated here for the runs
\* in which nothing fails).
C10_FetchedOnce == faults = 0 => \A p \in PageNumbers : fetchCount[p] <= 1

\* C10 as amended: an external fetch of a page starts only while the page is
\* not in the cache, so a cached page is never fetched again; requests that
\* find the same page uncached (two concurrent requests, or a request after a
\* failed fetch) each fetch it.
C10_FetchedOnlyWhileUncached ==
  [][\A p \in PageNumbers :
       fetchCount'[p] # fetchCount[p] =>
         p \notin DOMAIN pageCache /\ fetchCount'[p] = fetchCount[p] + 1]_vars

C10_Witness ==
  \E p \in PageNumbers :
    /\ fetchCount[p] = 2
    /\ \A r \in Clients : \E i \in DOMAIN req[r].slots :
         req[r].slots[i].page = p /\ req[r].slots[i].state = "open"

\* C11: fetchQuotesFromPage never raises: every failure of the external
\* fetch of a page, opening the tab included, becomes an empty list for that
\* page, so a call that has planned its pages never fails.
C11_NeverRaises ==
  \A r \in Clients : req[r].pc = "error" => req[r].startPage = 0

\* C12: whatever step of the metadata walk fails (opening the tab, a
\* navigation, counting), fetchPageMetadata returns to initialize() without
\* an error and leaves pageMetadata set to the fallback 10 / 10 / 100.
C12_FailsClosed ==
  [][\A c \in Callers :
       init[c].pc \in {"newPage", "first", "loop"}
         /\ init'[c] # init[c] /\ faults' # faults =>
           init'[c].pc = "close" /\ pageMetadata' = FallbackMetadata]_vars

\* C13: a timeout during a step of the metadata walk ends the walk there and
\* the metadata reflects the pages visited before it: their number as
\* totalPages and their minimum as quotesPerPage.
C13_TimeoutEndsWalk ==
  [][\A c \in Callers :
       init[c].pc = "loop" /\ init'[c] # init[c] /\ faults' # faults =>
         init'[c].pc = "close" /\ pageMetadata' = WalkedMetadata(init[c])]_vars

\* C15: after a walk that completed without error (a walk that stopped on a
\* zero-item page included) the per-page denominator the resolvers use is at
\* most the real item count of every page in 1..totalPages.
C15_NeverOverestimates ==
  CompletedWalk =>
    \A p \in 1..pageMetadata.totalPages : QuotesPerPage <= QuotesOn(p)

\* C17: in one session the browser is launched at most once and the
\* metadata walk is run at most once, under every interleaving of requests:
\* a launch completes only while no browser was launched, and a walk starts
\* only while no walk has started.
C17_ComputedOnce ==
  [][\A c \in Callers :
       /\ init[c].pc = "launch" /\ init'[c].pc = "newPage" => ~browser
       /\ init[c].pc = "newPage" /\ init'[c].pc = "first" =>
            /\ pageMetadata = NoMetadata
            /\ \A d \in Callers : init[d].pc \notin {"first", "loop", "close"}]_vars

\* C14: after every metadata computation, from a completed walk or from the
\* fallback, totalPages is between 1 and the maximum of 10, quotesPerPage and
\* avgQuotesPerPage are not negative, and estimatedTotalQuotes equals
\* quotesPerPage * totalPages.
C14_MetadataInvariant ==
  pageMetadata # NoMetadata =>
    /\ pageMetadata.totalPages >= 1 /\ pageMetadata.totalPages <= 10
    /\ pageMetadata.quotesPerPage >= 0
    /\ pageMetadata.avgQuotesPerPage >= 0
    /\ pageMetadata.estimatedTotalQuotes =
         pageMetadata.quotesPerPage * pageMetadata.totalPages

C14_Witness ==
  /\ pageMetadata # NoMetadata /\ pageMetadata # FallbackMetadata
  /\ Len(pageMetadata.quotesPerPageCounts) > 10
  /\ pageMetadata.totalPages = 10
  /\ pageMetadata.estimatedTotalQuotes = 10 * SmallPage

\* the pages that yield zero items, from page `from` on
ZeroPages(from) == {p \in from..Len(counts) : counts[p] = 0}

\* the smallest element of a non-empty set of numbers
Least(S) == CHOOSE x \in S : \A y \in S : x <= y

\* the page on which a walk that treats the zero-item pages Z as the end stops:
\* the first page without a next-page link, the first page of Z, or page 20
StopPage(Z) == Least({Len(counts), 20} \cup Z)

\* the page such a walk reports as the last one
LastPage(Z) == IF StopPage(Z) \in Z THEN StopPage(Z) - 1 ELSE StopPage(Z)

\* a walk never goes past the stop page, ends on it, and reports the last page
WalkStopsAt(Z) ==
  \A c \in Callers :
    /\ init[c].currentPage <= StopPage(Z)
    /\ init[c].pc = "close" /\ pageMetadata # FallbackMetadata =>
         init[c].currentPage = StopPage(Z) /\ init[c].totalPages = LastPage(Z)

\* every walk that has started ends
WalkTerminates ==
  \A c \in Callers : (init[c].pc \in {"first", "loop"}) ~> (init[c].pc = "close")

\* C16: the metadata walk always terminates: it stops at the first page with
\* no next-page link, or at the first page that yields zero items (reporting
\* the previous page as the last one), or after at most 20 pages.
C16_WalkTerminates == []WalkStopsAt(ZeroPages(1)) /\ WalkTerminates

\* C16 as amended: the metadata walk always terminates: it stops at the first
\* page with no next-page link, or at the first page after page 1 that yields
\* zero items (reporting the previous page as the last one), or after at most
\* 20 pages; the item count of page 1 is not examined.
C16_WalkTerminatesFromPage2 == []WalkStopsAt(ZeroPages(2)) /\ WalkTerminates

C16_Witness ==
  \E c \in Callers :
    /\ Len(counts) > 20
    /\ init[c].pc = "close" /\ pageMetadata # FallbackMetadata
    /\ init[c].currentPage = 20

\* C18: fetchRandomQuotes(count) uses the subset strategy exactly when
\* count <= 50, and for count > 50 it runs fetchQuotesWithPagination(0, count)
\* and returns what that call returns.
C18_Dispatch ==
  LET q == req[RandomClient]
      other == req[RangeClient]
  IN /\ q.pc \in {"drawing", "subsetFetching"} => q.count >= 1 /\ q.count <= 50
     /\ q.pc \in {"fetching", "extend", "extendWait"} => q.offset = 0 /\ q.limit > 50
     /\ q.pc = "done" => IF q.count > 0 THEN q.count <= 50
                         ELSE q.offset = 0 /\ q.limit > 50
     /\ Returned(RandomClient) /\ q.count = 0 /\ Returned(RangeClient)
          /\ other.offset = 0 /\ other.limit = q.limit =>
            q.result = other.result

C18_Witness ==
  /\ Returned(RandomClient) /\ Returned(RangeClient)
  /\ req[RandomClient].count = 0 /\ req[RandomClient].limit = 51
  /\ req[RangeClient].offset = 0 /\ req[RangeClient].limit = 51
  /\ Len(req[RandomClient].result) >= 2
  /\ req[RandomClient].result = req[RangeClient].result

\* C19: for count <= 50 the subset strategy fetches exactly pagesNeeded
\* pages, pagesNeeded = ceil(count / perPage) capped at ceil(totalPages / 2);
\* the chosen page numbers are pairwise distinct and lie in 1..totalPages; and
\* the loop that draws the pages ends.
C19_SubsetPages ==
  /\ [](\A r \in Clients :
          LET q == req[r]
          IN q.pc \in {"drawing", "subsetFetching", "done"} /\ q.count > 0 =>
               /\ q.pagesNeeded = Min(Ceil(q.count, q.quotesPerPage),
                                      Ceil(pageMetadata.totalPages, 2))
               /\ Len(q.pageNumbers) <= q.pagesNeeded
               /\ \A i, j \in DOMAIN q.pageNumbers :
                    q.pageNumbers[i] = q.pageNumbers[j] => i = j
               /\ \A i \in DOMAIN q.pageNumbers :
                    q.pageNumbers[i] \in 1..pageMetadata.totalPages
               /\ q.pc # "drawing" =>
                    /\ Len(q.pageNumbers) = q.pagesNeeded
                    /\ [i \in DOMAIN q.slots |-> q.slots[i].page] = q.pageNumbers)
  /\ \A r \in Clients :
       (req[r].pc = "drawing") ~>
         (req[r].pc # "drawing" \/ Len(req[r].pageNumbers) >= req[r].pagesNeeded)

C19_Witness ==
  \E r \in Clients :
    /\ req[r].pc = "done" /\ req[r].count > 0
    /\ req[r].pagesNeeded = 2 /\ Len(req[r].pageNumbers) = 2
    /\ req[r].pageNumbers[1] > req[r].pageNumbers[2]
    /\ pageMetadata.totalPages = 3

\* C20: for every count in 1..50 and every source, fetchRandomQuotes(count)
\* returns exactly min(count, totalAvailable) items when nothing fails.
C20_ExactCount ==
  \A r \in Clients :
    Returned(r) /\ req[r].count > 0 /\ faults = 0 =>
      Len(req[r].result) = Min(req[r].count, TotalAvailable)

\* the number of positions of list s that hold x
Occurrences(s, x) == Cardinality({i \in DOMAIN s : s[i] = x})

\* C21: the list the subset strategy returns holds no item identity twice;
\* the shuffle returns a permutation of the fetched items (same multiset) and
\* leaves the cached page lists as they were fetched.
C21_NoDuplicates ==
  \A r \in Clients :
    LET q == req[r]
    IN q.pc = "done" /\ q.count > 0 =>
         /\ \A i, j \in DOMAIN q.result : q.result[i] = q.result[j] => i = j
         /\ q.allQuotes = Flat(PageResults(q))
         /\ Len(q.shuffled) = Len(q.allQuotes)
         /\ \A i \in DOMAIN q.allQuotes :
              Occurrences(q.shuffled, q.allQuotes[i]) = Occurrences(q.allQuotes, q.allQuotes[i])
         /\ q.result = SubSeq(q.shuffled, 1, Min(q.count, Len(q.shuffled)))
         /\ \A p \in DOMAIN pageCache : pageCache[p] = PageItems(p)

C21_Witness ==
  \E r \in Clients :
    /\ req[r].pc = "done" /\ req[r].count >= 2
    /\ Len(req[r].pageNumbers) = 2
    /\ Len(req[r].allQuotes) >= 3
    /\ req[r].shuffled # req[r].allQuotes
    /\ Len(req[r].result) = req[r].count
    /\ \A i \in DOMAIN req[r].pageNumbers : req[r].pageNumbers[i] \in DOMAIN pageCache

\* the requests of call c, in the order of issue
RequestsOf(c) == SelectSeq(requests, LAMBDA q : q.call = c /\ q.by \in LargeKinds)

Positions(q) == q.offset..(q.offset + q.limit - 1)

\* C22: fetchLargeBulkQuotes first requests exactly the first min(100, total)
\* positions in one paginated request at offset 0, and requests no later
\* position before that request has completed.
C22_InitialBatchFirst ==
  \A c \in DOMAIN large :
    LET total == Len(large[c].cellIds)
        first == IF total < 100 THEN total ELSE 100
        rs == RequestsOf(c)
    IN /\ rs # <<>>
       /\ rs[1].by = "initial"
       /\ rs[1].offset = 0
       /\ rs[1].limit = first
       /\ rs[1].cellIds = [i \in 1..first |-> i - 1]
       /\ rs[1].status = "inflight" => Len(rs) = 1

C22_Witness ==
  \E c \in DOMAIN large :
    /\ Len(large[c].cellIds) = 250
    /\ RequestsOf(c)[1].status = "answered"
    /\ Len(RequestsOf(c)) = 3
    /\ RequestsOf(c)[3].offset = 200

\* C23: when 1 <= remaining <= 500 the remaining positions are requested in
\* consecutive batches of 100 (the last possibly shorter), batch k at offset
\* initialBatchSize + 100 * k with limit its size, in increasing k, and the
\* initial batch and these batches request every position exactly once.
C23_StaggeredBatches ==
  \A c \in DOMAIN large :
    LET total == Len(large[c].cellIds)
        rs == RequestsOf(c)
        remaining == total - rs[1].limit
        scheduled == large[c].pc = "returned"
    IN remaining >= 1 /\ remaining <= 500 =>
         /\ \A i \in 2..Len(rs) :
              /\ rs[i].by = "timer"
              /\ rs[i].offset = rs[1].limit + 100 * (i - 2)
              /\ rs[i].limit = Min(100, total - rs[i].offset)
              /\ rs[i].cellIds = [j \in 1..rs[i].limit |-> rs[i].offset + j - 1]
         /\ scheduled => Len(large[c].remainingBatches) = Ceil(remaining, 100)
         /\ scheduled /\ large[c].fired = Len(large[c].remainingBatches) =>
              \A p \in 0..(total - 1) :
                Cardinality({i \in DOMAIN rs : p \in Positions(rs[i])}) = 1

C23_Witness ==
  \E c \in DOMAIN large :
    /\ Len(large[c].cellIds) = 250
    /\ large[c].fired = 2
    /\ RequestsOf(c)[3].limit = 50
    /\ \A i \in DOMAIN requests : requests[i].status # "inflight"

InFlightLoads ==
  {i \in DOMAIN requests : requests[i].by = "scroller" /\ requests[i].status = "inflight"}

AllLoaded(sc) == sc.loadedCells = {sc.allCells[i] : i \in DOMAIN sc.allCells}

LoadsOf(s) == SelectSeq(requests, LAMBDA q : q.by = "scroller" /\ q.scroller = s)

\* no load of a scroller asks for nothing or for a cell it has asked for before
NoIdleRequest ==
  \A s \in DOMAIN scrollers :
    LET ls == LoadsOf(s)
    IN \A i \in DOMAIN ls :
         /\ ls[i].limit >= 1
         /\ \A k \in DOMAIN ls[i].cellIds :
              /\ ls[i].cellIds[k] \notin {scrollers[s].allCells[n] : n \in 1..large[scrollers[s].call].initialBatchSize}
              /\ \A j \in 1..(i - 1) : \A m \in DOMAIN ls[j].cellIds :
                   ls[j].cellIds[m] # ls[i].cellIds[k]

\* C25: in virtual-scrolling mode, if scroll signals keep arriving, every
\* position of the selection is eventually marked loaded, whether the batch
\* requests succeed or fail; once all are loaded a signal issues no request.
C25_AllLoadedEventually ==
  /\ []NoIdleRequest
  /\ (virtualScroller # 0) ~> (virtualScroller # 0 /\ AllLoaded(scrollers[virtualScroller]))

C25_Witness ==
  /\ virtualScroller # 0
  /\ AllLoaded(scrollers[virtualScroller])
  /\ Len(LoadsOf(virtualScroller)) = 6
  /\ \E i \in DOMAIN requests :
       /\ requests[i].by = "scroller"
       /\ requests[i].scroller = virtualScroller
       /\ requests[i].status = "failed"

FailedRequests == {i \in DOMAIN requests : requests[i].status = "failed"}

\* the calls of fetchQuote that the failure of request i led to, for cell cellId
FallbackFetches(i, cellId) ==
  {n \in DOMAIN singles : singles[n].fallbackOf = i /\ singles[n].cellId = cellId}

FallsBack(i) ==
  \A k \in DOMAIN requests[i].cellIds :
    Cardinality(FallbackFetches(i, requests[i].cellIds[k])) = 1

\* C26: whenever a bulk request or a paginated batch request fails, the page
\* issues exactly one single-item fetch for each position of that batch, both
\* in fetchBulkQuotes and in the batches of the paginated / virtual-scroll path.
C26_FallbackPerPosition ==
  \A i \in FailedRequests : requests[i].by # "single" => FallsBack(i)

\* the half that holds: the fallback of fetchBulkQuotes
BulkFallsBack ==
  \A i \in FailedRequests : requests[i].by \in {"bulk", "bulkPaginated"} => FallsBack(i)

BulkFallsBack_Witness ==
  \E i \in FailedRequests :
    /\ requests[i].by = "bulk"
    /\ requests[i].limit = 3
    /\ \A n \in DOMAIN singles : singles[n].pc = "done"
    /\ Len(singles) = 3

\* what the claim calls out of bounds: a value that is not a number, count
\* below 1 or above the maximum, offset below 0, limit below 1 or above the cap
NotANumber(v) == v.kind = "text"
Below(v, least) == v.kind = "int" /\ v.value < least
Above(v, greatest) == v.kind = "int" /\ v.value > greatest

OutOfBounds(q) ==
  \/ /\ q.endpoint = "bulk"
     /\ q.count.kind = "missing" \/ NotANumber(q.count) \/ Below(q.count, 1) \/ Above(q.count, 300)
  \/ /\ q.endpoint = "paginated"
     /\ \/ NotANumber(q.offset) \/ Below(q.offset, 0)
        \/ NotANumber(q.limit) \/ Below(q.limit, 1) \/ Above(q.limit, 100)

Rejected == \A r \in Clients : req[r].pc \in {"idle", "error"}

\* C27: a call whose count, offset or limit is out of bounds or not a number
\* is rejected with an error response; it is never served with a clamped or
\* a default value.
C27_RejectsOutOfBounds == OutOfBounds(query) => Rejected

\* the half that holds: the count of POST /api/quotes/bulk
BulkRejects == query.endpoint = "bulk" /\ OutOfBounds(query) => Rejected

BulkRejects_Witness ==
  /\ query.endpoint = "bulk"
  /\ query.count = Number(MaxCount + 1)
  /\ req[RangeClient].pc = "error"

\* C28: getStats() returns a statistics record and never an error, in every
\* reachable state of the session; GET /api/stats answers with success.
C28_StatsNeverErrors == stats = NoStats \/ stats.success

\* C29: a failure of the optional enrichment of an item never fails or drops
\* the item: a call of scrapeQuotesInParallel that returns delivers every item
\* (and a missing secondary link never turns a successful fetch into an error
\* response, MissingLinkNeverErrors).
C29_EnrichmentNeverFails ==
  scrape.pc = "done" => Len(scrape.results) = Len(scrape.quotesToScrape)

\* the second half of C29: a fetch that succeeded is answered with 200
MissingLinkNeverErrors ==
  \A r \in Clients : req[r].pc = "done" => HttpStatus(r) = 200

\* what holds: an item whose lookups found nothing carries the search link
SearchLinkFallback ==
  \A k \in DOMAIN scrape.items :
    scrape.items[k].result = "quote" => scrape.items[k].goodreadsUrl \in {"link", "search"}

SearchLinkFallback_Witness ==
  /\ scrape.pc = "done"
  /\ \E i \in DOMAIN scrape.results : scrape.results[i].item.goodreadsUrl = "search"

RECURSIVE SumTabs(_)
SumTabs(items) ==
  IF items = <<>> THEN 0
  ELSE Head(items).page + Head(items).authorPage + SumTabs(Tail(items))

OpenTabs == SumTabs(scrape.items)

\* the items that have started and whose tab is not closed yet
Running == {k \in DOMAIN scrape.items :
              scrape.items[k].pc \notin {"waiting", "settled", "rejected"}}

\* the open tabs never exceed the configured maxConcurrentTabs
TabsWithinCap == OpenTabs <= config.maxConcurrentTabs

\* no item waits while a slot is free, as long as the call has not failed
StartsWhenSlotFrees ==
  scrape.pc \in {"batch", "delay"}
    /\ (\A k \in DOMAIN scrape.items : scrape.items[k].pc # "rejected")
    /\ (\E k \in DOMAIN scrape.items : scrape.items[k].pc = "waiting")
    => Cardinality(Running) >= config.maxConcurrentTabs

\* C30: during scrapeQuotesInParallel the number of simultaneously open tabs
\* never exceeds the configured maxConcurrentTabs, and an item beyond the cap
\* starts as soon as a slot frees.
C30_TabsCapped == TabsWithinCap /\ StartsWhenSlotFrees

RECURSIVE SumPages(_)
SumPages(items) == IF items = <<>> THEN 0 ELSE Head(items).page + SumPages(Tail(items))

\* what holds: the tabs the items open themselves stay within the cap
ItemTabsCapped == SumPages(scrape.items) <= config.maxConcurrentTabs

ItemTabsCapped_Witness ==
  /\ Len(scrape.items) = 3
  /\ config.maxConcurrentTabs = 2
  /\ SumPages(scrape.items) = 2

\* C31: while the scraper's initialization has not completed successfully
\* every data endpoint answers 503 (no request gets past the check, no
\* statistics answer has another status) and /health reports scraperReady false.
C31_NotInitializedAnswers503 ==
  serverPc = "listening" /\ ~isInitialized =>
    /\ ~scraperReady
    /\ stats = NoStats \/ stats.status = 503
    /\ \A r \in Clients : req[r].pc = "idle"

\* C32: the paginated endpoint asks the range resolver for at most the
\* documented maximum of 50 items and returns at most 50, for every requested
\* limit.
C32_LimitAtMostDocumented ==
  \A r \in Clients :
    query.endpoint = "paginated" /\ req[r].pc # "idle" =>
      /\ req[r].limit <= DocumentedMaximum
      /\ Len(req[r].result) <= DocumentedMaximum

\* what holds: the limit asked of the resolver is at least 1 and at most 100
LimitWithinCap ==
  \A r \in Clients :
    query.endpoint = "paginated" /\ req[r].pc # "idle" =>
      req[r].limit >= 1 /\ req[r].limit <= LimitCap

LimitWithinCap_Witness ==
  \E r \in Clients :
    /\ query.endpoint = "paginated" /\ query.limit = Number(LimitCap + 1)
    /\ req[r].pc = "done" /\ req[r].limit = LimitCap

\* the cells for which a step starts a fetch: the cells of the calls of
\* fetchQuote, fetchBulkQuotes and fetchLargeBulkQuotes it adds
StartedCells ==
  UNION ({{singles'[n].cellId} : n \in DOMAIN singles' \ DOMAIN singles}
           \cup {Cells(bulk'[c].cellIds) : c \in DOMAIN bulk' \ DOMAIN bulk}
           \cup {Cells(large'[c].cellIds) : c \in DOMAIN large' \ DOMAIN large})

\* the selected cells that hold no quote and are not in loadingCells
Eligible ==
  {cellId \in Cells(selectedCells) : cellId \notin DOMAIN gridQuotes /\ cellId \notin loadingCells}

\* a fetch started for the cell has not yet given it a quote
InProgress(cellId) ==
  \/ \E n \in DOMAIN singles : singles[n].cellId = cellId /\ singles[n].pc # "done"
  \/ \E c \in DOMAIN bulk :
       cellId \in Cells(bulk[c].cellIds) /\ bulk[c].pc \notin {"done", "fallback"}
  \/ \E c \in DOMAIN large :
       /\ cellId \in Cells(large[c].cellIds)
       /\ ~\E i \in DOMAIN requests :
             /\ requests[i].by \in LargeKinds /\ requests[i].call = c
             /\ requests[i].status # "inflight"
             /\ cellId \in Cells(requests[i].cellIds)

\* Space with a selection starts the fetch of the tier of the eligible
\* cells, for exactly those cells, and the focused cell is fetched only as
\* one of them
SpaceFetchesByTier ==
  Len(selectedCells) > 0 =>
    /\ StartedCells = Eligible
    /\ focusedCell \in StartedCells => focusedCell \in Eligible
    /\ Len(singles') - Len(singles) = IF Cardinality(Eligible) = 1 THEN 1 ELSE 0
    /\ Len(bulk') - Len(bulk) =
         IF Cardinality(Eligible) > 1 /\ Cardinality(Eligible) <= 100 THEN 1 ELSE 0
    /\ Len(large') - Len(large) = IF Cardinality(Eligible) > 100 THEN 1 ELSE 0
    /\ Len(requests') - Len(requests) = IF Cardinality(Eligible) > 100 THEN 1 ELSE 0

\* C33: with a selection, Space fetches only the selected cells that hold no
\* quote and are not loading, by the fetch of their tier (1: single, 2..100:
\* one bulk fetch, more: the paginated path); the focused cell is fetched only
\* as one of them; a cell that holds a quote, is marked loading or has a fetch
\* in progress is never fetched again by Space.
C33_SpaceFetchesIdleCells ==
  [][presses' # presses =>
       /\ SpaceFetchesByTier
       /\ \A cellId \in StartedCells :
            /\ cellId \notin DOMAIN gridQuotes
            /\ cellId \notin loadingCells
            /\ ~InProgress(cellId)]_vars

\* what holds: the fetch of the tier is started for the cells that have no
\* entry in state.quotes and are not in state.loadingCells
SpaceFiltersByState == [][presses' # presses => SpaceFetchesByTier]_vars

\* Space was pressed twice on two selected cells: the first press started one
\* bulk fetch, the second press, after the quotes arrived, started nothing
SpaceFiltersByState_Witness ==
  /\ presses = 2
  /\ Len(selectedCells) = 2
  /\ Len(bulk) = 1 /\ bulk[1].pc = "done"
  /\ singles = <<>> /\ large = <<>> /\ Len(requests) = 1
  /\ \A cellId \in Cells(selectedCells) : gridQuotes[cellId].kind = "item"

\* the sweep has run on metadata of a completed walk and no fetch failed
CleanSweep == sweep.limit > 0 /\ CompletedWalk /\ ~sweep.failed

\* C34: consecutive range requests at offsets 0, L, 2L, ... with the same
\* limit L return each item of pages 1..totalPages at most once and skip none:
\* what they have returned so far is the beginning of the flattened source,
\* and once an answer is short it is the whole flattened source.
C34_SweepCoversSource ==
  CleanSweep =>
    /\ Len(sweep.items) <= Len(FlatSource)
    /\ \A i \in 1..Min(Len(sweep.items), Len(FlatSource)) : sweep.items[i] = FlatSource[i]
    /\ sweep.ended => sweep.items = FlatSource

\* every page 1..totalPages holds the number of quotes the walk recorded as
\* quotesPerPage (its minimum over the pages it visited)
UniformPages ==
  \A p \in 1..pageMetadata.totalPages : QuotesOn(p) = pageMetadata.quotesPerPage

\* what holds: on such a site the sweep returns the flattened source in order
UniformSweepCoversSource == UniformPages => C34_SweepCoversSource

UniformSweepCoversSource_Witness ==
  /\ CleanSweep /\ sweep.ended /\ sweep.answers >= 3
  /\ pageMetadata.totalPages >= 2 /\ UniformPages
  /\ sweep.items = FlatSource /\ FlatSource # <<>>

\* fetchQuotesFromPage(pageNum) was called: an external fetch of the page was
\* started or the call returned, or a call for the page is pending
Passed(pageNum) ==
  \/ pageNum \in PageNumbers /\ (fetchCount[pageNum] > 0 \/ returned[pageNum] # {})
  \/ \E r \in Clients :
       \/ \E i \in DOMAIN req[r].slots : req[r].slots[i].page = pageNum
       \/ req[r].pc = "extendWait" /\ req[r].additionalPage = pageNum

\* the iterations of the loop that fetches additional pages, so far
Extensions(q) == q.additionalPage - (q.endPage + 1) + (IF q.pc = "extendWait" THEN 1 ELSE 0)

\* C35: every page number passed to fetchQuotesFromPage by the range resolver
\* (planned span, additional pages) and by the subset strategy lies in
\* 1..totalPages, for every offset, limit and count; and the loop that fetches
\* additional pages makes at most totalPages - min(endPage, totalPages)
\* fetches.
C35_PagesWithinSite ==
  /\ \A pageNum \in 0..(maxPages + BoundaryLimit + MaxOffset) :
       Passed(pageNum) => pageNum >= 1 /\ pageNum <= SubsetTotalPages
  /\ \A r \in Clients :
       /\ \A i \in DOMAIN req[r].pageNumbers :
            req[r].pageNumbers[i] >= 1 /\ req[r].pageNumbers[i] <= SubsetTotalPages
       /\ req[r].pc \in {"extend", "extendWait", "done"} =>
            Extensions(req[r]) <= SubsetTotalPages - Min(req[r].endPage, SubsetTotalPages)

\* a range request whose planned span ended before the last page went on to
\* fetch every page up to totalPages, and no more
C35_Witness ==
  /\ req[RangeClient].pc = "done"
  /\ req[RangeClient].endPage < pageMetadata.totalPages
  /\ Extensions(req[RangeClient]) = pageMetadata.totalPages - req[RangeClient].endPage
  /\ Passed(pageMetadata.totalPages)
  /\ \A pageNum \in PageNumbers : pageNum > pageMetadata.totalPages => ~Passed(pageNum)

\* the subset strategy has drawn its pages, the last page among them
C35_SubsetWitness ==
  /\ req[RandomClient].pc = "subsetFetching"
  /\ Len(req[RandomClient].pageNumbers) >= 2
  /\ \E i \in DOMAIN req[RandomClient].pageNumbers :
       req[RandomClient].pageNumbers[i] = req[RandomClient].totalPages

\* a step in which an external fetch of a page fails: an open call of
\* fetchQuotesFromPage returns the empty list, or its tab cannot be opened
FetchFails ==
  \E r \in Clients :
    \/ \E i \in DOMAIN req[r].slots :
         /\ req[r].slots[i].state = "open"
         /\ i \in DOMAIN req'[r].slots
         /\ \/ req'[r].slots[i].state = "done" /\ req'[r].slots[i].result = <<>>
            \/ req'[r].slots[i].state = "thrown"
    \/ /\ req[r].pc = "extendWait"
       /\ req'[r].pc \in {"extend", "error"}
       /\ req'[r].allQuotes = req[r].allQuotes

\* a step in which a call plans its pages: every planned page that is not in
\* the cache gets an external fetch
UncachedPagesFetched ==
  \A r \in Clients :
    req[r].pc \in {"idle", "initialized"} /\ req'[r].pc = "fetching" =>
      \A i \in DOMAIN req'[r].slots :
        LET s == req'[r].slots[i]
        IN s.page \notin DOMAIN pageCache =>
             s.state = "open" /\ fetchCount'[s.page] = fetchCount[s.page] + 1

\* C36: a page whose external fetch failed is not written to the cache (the
\* cache only ever holds lists obtained from a successful fetch), so a later
\* fetchQuotesFromPage for the page performs the external fetch again.
C36_FailedFetchNotCached ==
  /\ [](\A p \in DOMAIN pageCache : pageCache[p] = PageItems(p) /\ pageCache[p] # <<>>)
  /\ [][(FetchFails => pageCache' = pageCache) /\ UncachedPagesFetched]_vars

\* the first external fetch of a page failed and its call has returned; a
\* later call fetched the page again, with success
C36_Witness ==
  \E p \in DOMAIN pageCache : \E r \in Clients :
    /\ <<>> \in returned[p]
    /\ fetchCount[p] = 2
    /\ calls = 2
    /\ \A other \in Clients \ {r} : req[other].pc = "idle"
    /\ \E i \in DOMAIN req[r].slots :
         /\ req[r].slots[i].page = p
         /\ req[r].slots[i].state = "done"
         /\ req[r].slots[i].result = pageCache[p]

\* a random or bulk request whose body the schema of the count rejects
InvalidCount ==
  /\ query.endpoint \in {"bulk", "random"}
  /\ ~(query.count.kind = "int" /\ query.count.value >= 1 /\ query.count.value <= 300)

\* C37: a random or bulk request rejected by input validation causes no
\* external page fetch and leaves the page cache and the page metadata
\* unchanged: in a session whose request is invalid no step fetches a page or
\* writes the cache, no client's request leaves the handler, and the metadata
\* is written by the start-up's own initialization only.
C37_RejectedRequestFetchesNothing ==
  [][InvalidCount =>
       /\ fetchCount' = fetchCount
       /\ pageCache' = pageCache
       /\ pageMetadata' = pageMetadata \/ init'[Startup] # init[Startup]
       /\ \A r \in Clients : req'[r].pc \in {"idle", "error"}]_vars

\* both endpoints have rejected a request on an initialized scraper
C37_Witness ==
  /\ InvalidCount
  /\ query.endpoint = "random"
  /\ isInitialized
  /\ pageMetadata.totalPages > 0
  /\ HttpStatus(RandomClient) = 500

C37_BulkWitness ==
  /\ InvalidCount
  /\ query.endpoint = "bulk"
  /\ isInitialized
  /\ HttpStatus(RangeClient) = 500

\* the quotes the call c of fetchBulkQuotes owes its cells: the items of its
\* own answer in order, placeholders beyond them
OwnQuotes(c, i) ==
  [k \in DOMAIN bulk[c].cellIds |->
     IF k <= requests[i].count THEN Item(i, k) ELSE PlaceholderQuote]

\* C38: when several single or bulk fetches are in progress concurrently every
\* cell ends up with the item returned by its own request: a call of fetchQuote
\* whose request succeeded shows that request's item (not another request's,
\* not a mock quote), and a call of fetchBulkQuotes that shows quotes shows
\* those of its own answer.
C38_CellShowsOwnItem ==
  [][/\ \A n \in DOMAIN singles :
          singles[n].pc = "selected" /\ singles'[n].pc = "done" =>
            gridQuotes'[singles[n].cellId] = Item(RequestOf({"single"}, n), 1)
     /\ \A c \in DOMAIN bulk :
          bulk[c].pc = "selected" /\ bulk'[c].pc = "done" =>
            \A k \in DOMAIN bulk[c].cellIds :
              gridQuotes'[bulk[c].cellIds[k]] =
                OwnQuotes(c, RequestOf({"bulk", "bulkPaginated"}, c))[k]]_vars

\* the cells for which a fetch was started: those of the calls of fetchQuote
\* (the fallbacks included) and fetchBulkQuotes and of the batches requested
FetchedCells ==
  UNION ({{singles[n].cellId} : n \in DOMAIN singles}
           \cup {Cells(bulk[c].cellIds) : c \in DOMAIN bulk}
           \cup {Cells(requests[i].cellIds) : i \in DOMAIN requests})

\* the cell holds a quote that is not a loading message and is not loading
Settled(cellId) ==
  /\ cellId \in DOMAIN gridQuotes
  /\ gridQuotes[cellId].kind # "loading"
  /\ cellId \notin loadingCells

AllSettled == \A cellId \in FetchedCells : Settled(cellId)

\* C39: every cell for which a fetch was started (single, bulk, paginated
\* batch, bulk fallback) eventually holds a non-loading quote (an item, a mock
\* quote, a placeholder or an error item) and is eventually removed from
\* loadingCells, whether the request succeeds, fails or returns fewer items
\* than cells: whenever some cell is not settled, a state follows in which
\* every cell fetched so far is.
C39_NoCellLoadsForever == ~AllSettled ~> AllSettled

\* cells settled through each path: a failed bulk request whose fallback gave
\* its cells quotes, and a batch whose answer was short
C39_Witness ==
  /\ AllSettled
  /\ \E c \in DOMAIN bulk : bulk[c].pc = "fallback"
  /\ \E n \in DOMAIN singles : singles[n].pc = "done"

C39_ShortBatchWitness ==
  /\ AllSettled
  /\ \E i \in DOMAIN requests :
       /\ requests[i].by \in LargeKinds
       /\ requests[i].status = "answered"
       /\ requests[i].count < requests[i].limit
       /\ gridQuotes[requests[i].cellIds[requests[i].limit]] = PlaceholderQuote

\* the positions of allCells a load asks for, from its offset and its limit
LoadPositions(q) == (q.offset + 1)..(q.offset + q.limit)

\* loadedCells holds exactly the first cells of allCells
LoadedPrefix(sc) ==
  sc.loadedCells = {sc.allCells[k] : k \in 1..Cardinality(sc.loadedCells)}

\* C40: in every reachable state of one virtual scroller loadedCells is a
\* prefix of allCells; each batch it requests consists of the next at most 100
\* unloaded positions and is requested with the offset of its first position
\* in allCells, so no position is requested twice by the same scroller.
C40_BatchesInOrder ==
  \A s \in DOMAIN scrollers :
    LET sc == scrollers[s]
        ls == LoadsOf(s)
    IN /\ LoadedPrefix(sc)
       /\ \A i \in DOMAIN ls :
            /\ ls[i].offset = IF i = 1 THEN large[sc.call].initialBatchSize
                              ELSE ls[i - 1].offset + ls[i - 1].limit
            /\ ls[i].limit = Min(100, Len(sc.allCells) - ls[i].offset)
            /\ ls[i].limit >= 1
            /\ ls[i].cellIds = SubSeq(sc.allCells, ls[i].offset + 1, ls[i].offset + ls[i].limit)
            /\ \A j \in 1..(i - 1) : LoadPositions(ls[j]) \cap LoadPositions(ls[i]) = {}
       /\ ls # <<>> =>
            Cardinality(sc.loadedCells) =
              IF ls[Len(ls)].status = "inflight" THEN ls[Len(ls)].offset
              ELSE ls[Len(ls)].offset + ls[Len(ls)].limit

\* a scroller that has loaded its whole selection, its last batch short, one
\* of its batches having failed
C40_Witness ==
  \E s \in DOMAIN scrollers :
    LET ls == LoadsOf(s)
    IN /\ AllLoaded(scrollers[s])
       /\ Len(ls) >= 2
       /\ ls[Len(ls)].limit < 100
       /\ \E i \in DOMAIN ls : ls[i].status = "failed"

============================================================================
